---- MODULE Spec2Model ----
(***************************************************************************)
(* Task-execution core of mobile-use: the Navigator turn                   *)
(* (src/lib/agent/agents/navigator.ts), the action registry                *)
(* (src/lib/agent/actions/builder.ts), the device adapter's snapshot cache *)
(* (src/lib/mobile/context.ts) and the Executor loop that drives them.     *)
(* The Executor's source file is not part of the tree; its loop follows    *)
(* section 4.3 of the specification.                                       *)
(***************************************************************************)
EXTENDS Integers, Sequences, FiniteSets, TLC

\* ---------------------------------------------------------------- bounds
\* Interactive elements in one snapshot.
MaxElems == 1

\* Actions the model returns in one run, over all its turns.
MaxActions == 4

\* Steps of the Executor loop (the configured maximum).
MaxSteps == 3

\* Messages the history holds before the oldest are evicted (the token budget,
\* at one token a message).
MaxTokens == 4

\* Results one turn's doMultiAction hands back to execute.
MaxResults == 2

\* Create-session requests the server receives.
MaxRequests == 3

\* Get-events connections to one session.
MaxConns == 2

\* Events the session's Executor emits.
MaxEvents == 3

\* Elements of a page source of more than one element.
MaxNodes == 4

\* Actions of the model outputs of a run of turns over plain actions.
MaxTurnActions == 5

\* ------------------------------------------------------ program constants
\* doMultiAction gives up when errCount exceeds this.
MaxErrors == 3

\* The Executor's failure threshold.
MaxFailures == 3

\* ------------------------------------------------------------- utilities
Range(s) == {s[i] : i \in 1..Len(s)}

Last(s) == s[Len(s)]

\* ------------------------------------------------- errors and their text
\* An error value: isError is `error instanceof Error', msg its message as
\* a sequence of characters.
Err(m) == [isError |-> TRUE, msg |-> m]

NoErr == [isError |-> FALSE, msg |-> <<>>]

LowerOf(c) ==
  CASE c = "A" -> "a" [] c = "B" -> "b" [] c = "C" -> "c" [] c = "D" -> "d"
    [] c = "E" -> "e" [] c = "F" -> "f" [] c = "G" -> "g" [] c = "H" -> "h"
    [] c = "I" -> "i" [] c = "J" -> "j" [] c = "K" -> "k" [] c = "L" -> "l"
    [] c = "M" -> "m" [] c = "N" -> "n" [] c = "O" -> "o" [] c = "P" -> "p"
    [] c = "Q" -> "q" [] c = "R" -> "r" [] c = "S" -> "s" [] c = "T" -> "t"
    [] c = "U" -> "u" [] c = "V" -> "v" [] c = "W" -> "w" [] c = "X" -> "x"
    [] c = "Y" -> "y" [] c = "Z" -> "z" [] OTHER -> c

toLowerCase(s) == [i \in 1..Len(s) |-> LowerOf(s[i])]

includes(s, sub) ==
  \E i \in 0..(Len(s) - Len(sub)) : \A j \in 1..Len(sub) : s[i + j] = sub[j]

AuthKeywords ==
  { <<"a","u","t","h">>,
    <<"a","p","i"," ","k","e","y">>,
    <<"u","n","a","u","t","h","o","r","i","z","e","d">>,
    <<"a","u","t","h","e","n","t","i","c","a","t","i","o","n">>,
    <<"c","r","e","d","e","n","t","i","a","l">> }

isAuthenticationError(e) ==
  /\ e.isError
  /\ \E kw \in AuthKeywords : includes(toLowerCase(e.msg), kw)

MsgUnauthorized ==
  <<"4","0","1"," ","U","n","a","u","t","h","o","r","i","z","e","d">>

MsgApiKey == <<"I","n","v","a","l","i","d"," ","A","P","I"," ","K","e","y">>

MsgNoRoot == <<"N","o"," ","r","o","o","t"," ","n","o","d","e">>

MsgTimeout == <<"t","i","m","e","o","u","t">>

MsgTooMany ==
  <<"T","o","o"," ","m","a","n","y"," ","e","r","r","o","r","s"," ",
    "i","n"," ","a","c","t","i","o","n","s">>

MsgBadFormat ==
  <<"I","n","v","a","l","i","d"," ","a","c","t","i","o","n"," ",
    "o","u","t","p","u","t"," ","f","o","r","m","a","t">>

MsgNoParse ==
  <<"C","o","u","l","d"," ","n","o","t"," ","p","a","r","s","e"," ",
    "r","e","s","p","o","n","s","e">>

InvokePrefix ==
  <<"F","a","i","l","e","d"," ","t","o"," ","i","n","v","o","k","e"," ",
    "g","p","t","-","4","o"," ","w","i","t","h"," ",
    "s","t","r","u","c","t","u","r","e","d"," ","o","u","t","p","u","t",":"," ",
    "E","r","r","o","r",":"," ">>

\* Errors the device adapter can raise inside getState.
DeviceErrors == { Err(MsgNoRoot), Err(MsgTimeout), Err(MsgUnauthorized),
                  [isError |-> FALSE, msg |-> MsgUnauthorized] }

\* Errors the model client can raise inside structuredLlm.invoke.
ModelErrors == { Err(MsgTimeout), Err(MsgUnauthorized), Err(MsgApiKey) }

\* invoke's catch wraps whatever the client threw into a new Error.
InvokeWrap(e) == Err(InvokePrefix \o e.msg)

\* ---------------------------------------------------------- action results
DoneResult == [isDone |-> TRUE, extractedContent |-> TRUE, error |-> FALSE,
               includeInMemory |-> FALSE]

OkResult == [isDone |-> FALSE, extractedContent |-> TRUE, error |-> FALSE,
             includeInMemory |-> TRUE]

ErrorResult == [isDone |-> FALSE, extractedContent |-> FALSE, error |-> TRUE,
                includeInMemory |-> TRUE]

EmptyResult == [isDone |-> FALSE, extractedContent |-> FALSE, error |-> FALSE,
                includeInMemory |-> FALSE]

\* --------------------------------------------------------- action registry
ActionNames == {"done", "click_element", "input_text", "scroll_down",
                "scroll_up", "scroll_to_text"}

\* A name under which the registry's plain object inherits a function from
\* Object.prototype.
InheritedNames == {"toString"}

\* Names a model output may carry: the registered ones, names that are not
\* registered, and an item without any key (Object.keys(action)[0]).
ItemNames == ActionNames \cup {"go_back", "undefined"} \cup InheritedNames

ArgFields == {"index", "text", "amount"}

\* Keys each schema requires; the fields of an input are the keys that
\* carry a value of the declared type.
RequiredKeys(name) ==
  CASE name = "done" -> {"text"}
    [] name = "click_element" -> {"index"}
    [] name = "input_text" -> {"index", "text"}
    [] name = "scroll_down" -> {"amount"}
    [] name = "scroll_up" -> {"amount"}
    [] name = "scroll_to_text" -> {"text"}
    [] OTHER -> {}

ShapeKeys(name) == IF name \in ActionNames THEN RequiredKeys(name) \cup {"desc"}
                   ELSE {}

safeParse(name, fields) == RequiredKeys(name) \subseteq fields

getAction(name) == name \in ActionNames

\* Action.call without its validation step.
ActionCallUnchecked(name, fields) == "handler"

\* Action.call: "handler" when the handler is invoked, otherwise the error.
ActionCall(name, fields) ==
  IF ShapeKeys(name) = {} THEN "handler"
  ELSE IF ~safeParse(name, fields) THEN "InvalidInputError"
  ELSE "handler"

\* Device-adapter method each handler calls ("none": the done action).
DeviceOp(name) ==
  CASE name = "click_element" -> "clickElement"
    [] name = "input_text" -> "inputText"
    [] name = "scroll_down" -> "scrollDown"
    [] name = "scroll_up" -> "scrollUp"
    [] name = "scroll_to_text" -> "scrollToText"
    [] OTHER -> "none"

\* ------------------------------------------------------------ device cache
ElementNames == {"a", "b"}

\* What a screen can show: up to MaxElems distinct elements, in list order.
Screens ==
  {s \in UNION {[1..n -> ElementNames] : n \in 0..MaxElems} :
     \A i, j \in 1..Len(s) : i # j => s[i] # s[j]}

\* cachedState is undefined until the first getState.
NoState == [taken |-> FALSE, interactiveElements |-> <<>>]

NoElement == "undefined"

\* A lookup that falls back to the first element of the snapshot.
ElementAtOrFirst(cs, index) ==
  IF cs.taken /\ Len(cs.interactiveElements) > 0
  THEN cs.interactiveElements[
         IF index >= 0 /\ index < Len(cs.interactiveElements)
         THEN index + 1 ELSE 1]
  ELSE NoElement

\* this.cachedState?.interactiveElements[index]
ElementAt(cs, index) ==
  IF cs.taken /\ index >= 0 /\ index < Len(cs.interactiveElements)
  THEN cs.interactiveElements[index + 1]
  ELSE NoElement

\* A cache that a click drops as well.
CachedStateAfterClickDrops(op, cs, fresh) ==
  IF op \in {"getState", "clickElement"} THEN fresh ELSE cs

\* The cached snapshot after a device-adapter method has run (fresh: what
\* getState has just built).
CachedStateAfter(op, cs, fresh) == IF op = "getState" THEN fresh ELSE cs

\* The awaits of getState, in order: any of them can reject.
GetStateSteps == {"saveScreenshot", "getPageSource", "processPageSource",
                  "createElementsOverlay", "getCurrentApp"}

\* A getState that stores the snapshot before it asks for the current app.
CachedStateStoredEarly(cs, fresh, st) ==
  IF st = "getCurrentApp" THEN fresh ELSE cs

\* The cached snapshot after getState rejected at step st (fresh: the
\* snapshot it was building): the assignment follows the last await.
CachedStateAfterReject(cs, fresh, st) == cs

\* ---------------------------------------------------------- navigator bits
\* A check that looks at the pause flag alone.
IsHaltedPauseOnly(p, s) == p

\* this.context.paused || this.context.stopped
IsHalted(p, s) == p \/ s

\* A budget of one error more.
TooManyErrorsLater(n) == n > MaxErrors + 1

\* errCount > 3
TooManyErrors(n) == n > MaxErrors

TurnDone(rs) == Len(rs) > 0 /\ rs[Len(rs)].isDone

\* A catch block that rethrows whatever it caught.
ExecuteCatchRethrows(e) == [kind |-> "throw", events |-> <<>>]

\* A catch block that never rethrows.
ExecuteCatchAll(e) == [kind |-> "error", events |-> <<"STEP_FAIL">>]

\* The catch block of NavigatorAgent.execute.
ExecuteCatch(e) ==
  IF isAuthenticationError(e)
  THEN [kind |-> "throw", events |-> <<>>]
  ELSE [kind |-> "error", events |-> <<"STEP_FAIL">>]

\* A loop over the results that leaves them as they are.
ResetNothing(rs) == rs

\* addStateMessageToMemory empties the results it has copied to memory.
ResetIncluded(rs) ==
  [i \in 1..Len(rs) |-> IF rs[i].includeInMemory THEN EmptyResult ELSE rs[i]]

\* No invocation yet.  prevTarget: the element the invocation just before
\* clicked, when that was a click at the same index.
NoInv == [seq |-> 0, name |-> "undefined", valid |-> FALSE, index |-> -1,
          stale |-> FALSE, err |-> "none", device |-> "none",
          target |-> NoElement, prevTarget |-> NoElement, emitted |-> {}]

NoOut == [kind |-> "none", done |-> FALSE]

StepStates == {"STEP_START", "STEP_LOG", "STEP_OK", "STEP_FAIL", "STEP_CANCEL"}

IsStepEvent(e) == e \in StepStates

\* The SYSTEM events on which the client closes its event stream.
TerminalStates == {"TASK_OK", "TASK_FAIL", "TASK_CANCEL"}

IsTerminalEvent(e) == e \in TerminalStates

HasTerminal(evs) == \E i \in 1..Len(evs) : evs[i] \in TerminalStates

\* ------------------------------------------------------- session registry
Sessions == {"s1", "s2"}

\* A request is known by its number; so is the Executor it creates.
ReqIds == 1..MaxRequests

NoExecutor == 0

\* status: none (not created), running (execute pending), settled.
NoExecutorObject ==
  [session |-> "none", status |-> "none", stopped |-> FALSE, cleaned |-> FALSE]

\* pc: unsent, newContext (parked at await appium.newContext()), done.
NoRequest == [session |-> "none", pc |-> "unsent", status |-> 0]

NoDelete == [session |-> "none", status |-> 0, executor |-> NoExecutor]

\* ExecutionManager (a singleton): a Map from session id to Executor.
hasExecutor(m, s) == m[s] # NoExecutor

getExecutor(m, s) == m[s]

setExecutor(m, s, e) == [m EXCEPT ![s] = e]

\* A registry that never forgets.
removeExecutorNever(m, s) == m

removeExecutor(m, s) == [m EXCEPT ![s] = NoExecutor]

\* ---------------------------------------------------------- event streams
ConnIds == 1..MaxConns

\* state: none (no request yet), open, closed (the client went away);
\* attachedAt: the events emitted before the listener was attached.
NoConn == [state |-> "none", attachedAt |-> 0, received |-> <<>>]

\* n copies of event ev.
Copies(ev, n) == [i \in 1..n |-> ev]

\* ------------------------------------------------- DeviceStream (client)
\* Reconnects the device stream schedules in a row.
MAX_RETRIES == 10

\* --------------------------------------------------- AgentPanel (client)
\* The EventSource objects one AgentPanel creates, in creation order.
Streams == 1..MaxConns

\* The value of the eventSource state when it holds no EventSource.
NullSource == 0

\* A handler that is not parked at its fetch.
NotPending == -1

\* The events a progress stream can carry, by actor and state.
AgentEvents ==
  {[actor |-> "SYSTEM", state |-> "TASK_OK"],
   [actor |-> "SYSTEM", state |-> "TASK_FAIL"],
   [actor |-> "SYSTEM", state |-> "TASK_CANCEL"],
   [actor |-> "NAVIGATOR", state |-> "STEP_LOG"]}

\* onmessage, were a cancelled task not to close the stream.
ClosesStreamUnlessCancelled(ev) ==
  ev.actor = "SYSTEM" /\ ev.state \in {"TASK_OK", "TASK_FAIL"}

\* The branches of onmessage that close the stream.
ClosesStream(ev) == ev.actor = "SYSTEM" /\ ev.state \in TerminalStates


\* --------------------------------------------------------- view processors
\* An element of the page source by what the processors look at.  geom is
\* what its geometry attributes hold (Android: bounds="[x1,y1][x2,y2]";
\* iOS: x, y, width, height): absent, garbled (not of the expected form), or
\* a rectangle of width w and height h.  visible is the iOS attribute of
\* that name; interactive: clickable="true" (Android), enabled="true" (iOS);
\* label: a non-empty text (Android) or name (iOS); desc: a non-empty
\* content-desc (Android) or label (iOS); kind: the resource-id (Android) or
\* the type (iOS), see Kinds.
Platforms == {"android", "ios"}

Geoms ==
  {[kind |-> g, w |-> 0, h |-> 0] : g \in {"absent", "garbled"}} \cup
  {[kind |-> "rect", w |-> w, h |-> h] : w \in {-1, 0, 2}, h \in {0, 2}}

\* none: the attribute is absent; other: an id or type the processors do not
\* single out (XCUIElementTypeOther); control: a type of the interactive
\* list (XCUIElementTypeButton), on Android one more ordinary id; statusbar:
\* an id with 'status_bar_container', a type with 'StatusBar'; navbar: an id
\* with 'navigation_bar', a type with 'NavigationBar'.
Kinds == {"none", "other", "control", "statusbar", "navbar"}

Elements ==
  [geom : Geoms, visible : {"absent", "true", "false"},
   interactive : BOOLEAN, label : BOOLEAN, desc : BOOLEAN, kind : Kinds]

El(g, v, i, l, d, kd) ==
  [geom |-> g, visible |-> v, interactive |-> i, label |-> l, desc |-> d,
   kind |-> kd]

Rect(w, h) == [kind |-> "rect", w |-> w, h |-> h]

\* The elements the documents of more than one element are made of: a
\* container without attributes, one with a geometry only, a text, a
\* control, an element with a description only, one of zero width and a
\* navigation bar with a title.
CoreElements ==
  { El([kind |-> "absent", w |-> 0, h |-> 0], "absent", FALSE, FALSE, FALSE,
       "none"),
    El(Rect(2, 2), "absent", FALSE, FALSE, FALSE, "none"),
    El(Rect(2, 2), "true", FALSE, TRUE, FALSE, "other"),
    El(Rect(2, 2), "true", TRUE, FALSE, FALSE, "control"),
    El(Rect(2, 2), "absent", FALSE, FALSE, TRUE, "none"),
    El(Rect(0, 2), "true", TRUE, TRUE, FALSE, "control"),
    El(Rect(2, 2), "true", FALSE, TRUE, FALSE, "navbar") }

RECURSIVE Forests(_, _)
\* The lists of element trees of n elements altogether over the elements A:
\* the first tree has k of them, its root included.
Forests(A, n) ==
  IF n = 0 THEN {<<>>}
  ELSE UNION {{<<[el |-> e, kids |-> ks]>> \o rest :
                 e \in A, ks \in Forests(A, k - 1),
                 rest \in Forests(A, n - k)} : k \in 1..n}

\* The shapes of the element trees of m elements.
Shapes(m) == {<<[el |-> 0, kids |-> ks]>> : ks \in Forests({0}, m - 1)}

RECURSIVE Size(_)
\* The number of elements of a list of element trees.
Size(ts) ==
  IF ts = <<>> THEN 0 ELSE 1 + Size(ts[1].kids) + Size(Tail(ts))

RECURSIVE Labelled(_, _, _)
\* The element trees of the shapes ts with the elements lab, in document
\* order from position next on.
Labelled(ts, lab, next) ==
  IF ts = <<>> THEN <<>>
  ELSE <<[el |-> lab[next], kids |-> Labelled(ts[1].kids, lab, next + 1)]>>
       \o Labelled(Tail(ts), lab, next + 1 + Size(ts[1].kids))

\* What parseXML gives is doc.documentElement as a list, empty when the
\* text has no root element (null).
NoSource == <<>>

NoViewOut ==
  [state |-> "none", error |-> "none", optimizedRoot |-> <<>>,
   interactiveElements |-> <<>>]

\* A number as parseInt gives it: NaN for text that is no number.
Num(n) == [nan |-> FALSE, n |-> n]

NaN == [nan |-> TRUE, n |-> 0]

\* v > 0 and v <= 0 in JavaScript: both false for NaN.
Positive(v) == ~v.nan /\ v.n > 0

NotPositive(v) == ~v.nan /\ v.n <= 0

NoBounds == [defined |-> FALSE, width |-> NaN, height |-> NaN]

\* parseBounds of the Android processor: undefined unless the attribute has
\* the form [x1,y1][x2,y2].
parseBoundsAndroid(el) ==
  IF el.geom.kind = "rect"
  THEN [defined |-> TRUE, width |-> Num(el.geom.w), height |-> Num(el.geom.h)]
  ELSE NoBounds

\* parseBounds of the iOS processor: undefined when one of the attributes is
\* missing or empty, else whatever parseInt makes of them.
parseBoundsIOS(el) ==
  IF el.geom.kind = "absent" THEN NoBounds
  ELSE IF el.geom.kind = "garbled"
  THEN [defined |-> TRUE, width |-> NaN, height |-> NaN]
  ELSE [defined |-> TRUE, width |-> Num(el.geom.w), height |-> Num(el.geom.h)]

parseBounds(p, el) ==
  IF p = "android" THEN parseBoundsAndroid(el) ELSE parseBoundsIOS(el)

\* elementToNode's isVisible.
IsVisible(p, el, b) ==
  IF p = "android"
  THEN b.defined /\ Positive(b.width) /\ Positive(b.height)
  ELSE IF b.defined
  THEN Positive(b.width) /\ Positive(b.height) /\ el.visible # "false"
  ELSE el.visible # "false"

isIOSInteractiveType(kd) == kd \in {"control", "navbar"}

\* elementToNode's isInteractive.
IsInteractive(p, el) ==
  \/ el.interactive
  \/ p = "ios" /\ isIOSInteractiveType(el.kind)

\* Some kept attribute is neither empty nor 'false' nor 'null': on iOS the
\* geometry and the visible attribute are among the kept ones.
HasMeaningful(p, el) ==
  \/ el.label
  \/ el.desc
  \/ el.interactive
  \/ el.kind # "none"
  \/ p = "ios" /\ (el.geom.kind # "absent" \/ el.visible = "true")

RECURSIVE elementsToNodes(_, _, _)
\* elementToNode over a list of elements, children included.  id tells the
\* node objects apart: the position of the element in the document.
elementsToNodes(p, ts, next) ==
  IF ts = <<>> THEN <<>>
  ELSE LET el == ts[1].el
           b == parseBounds(p, el)
       IN <<[id |-> next, attributes |-> el, bounds |-> b,
             isVisible |-> IsVisible(p, el, b),
             isInteractive |-> IsInteractive(p, el),
             children |-> elementsToNodes(p, ts[1].kids, next + 1)]>>
          \o elementsToNodes(p, Tail(ts), next + 1 + Size(ts[1].kids))

elementToNode(p, el) == elementsToNodes(p, <<el>>, 0)[1]

\* optimizeNode's system UI filter.
IsSystemUI(p, el) ==
  IF p = "android"
  THEN el.kind \in {"statusbar", "navbar"}
  ELSE el.kind = "statusbar" \/ (el.kind = "navbar" /\ ~el.label)

\* optimizeNode returns null for these before it looks at the children.
Skipped(p, n) ==
  \/ n.bounds.defined
       /\ (NotPositive(n.bounds.width) \/ NotPositive(n.bounds.height))
  \/ IsSystemUI(p, n.attributes)

RECURSIVE optimizeNodesCountsBefore(_, _)
\* An optimizeNode that counts the children before it optimizes them.
optimizeNodesCountsBefore(p, ns) ==
  IF ns = <<>> THEN <<>>
  ELSE LET n == ns[1]
           kids == optimizeNodesCountsBefore(p, n.children)
           hasMeaningful == HasMeaningful(p, n.attributes)
           this == IF Skipped(p, n) THEN <<>>
                   ELSE IF ~hasMeaningful /\ Len(n.children) = 1 THEN kids
                   ELSE IF ~hasMeaningful /\ Len(n.children) = 0 THEN <<>>
                   ELSE <<[n EXCEPT !.children = kids]>>
       IN this \o optimizeNodesCountsBefore(p, Tail(ns))

RECURSIVE optimizeNodesKeepsLone(_, _)
\* An optimizeNode that never promotes an only child.
optimizeNodesKeepsLone(p, ns) ==
  IF ns = <<>> THEN <<>>
  ELSE LET n == ns[1]
           kids == optimizeNodesKeepsLone(p, n.children)
           hasMeaningful == HasMeaningful(p, n.attributes)
           this == IF Skipped(p, n) THEN <<>>
                   ELSE IF ~hasMeaningful /\ Len(kids) = 0 THEN <<>>
                   ELSE <<[n EXCEPT !.children = kids]>>
       IN this \o optimizeNodesKeepsLone(p, Tail(ns))

RECURSIVE optimizeNodes(_, _)
\* optimizeNode over a list of nodes; <<>> stands for null.
optimizeNodes(p, ns) ==
  IF ns = <<>> THEN <<>>
  ELSE LET n == ns[1]
           kids == optimizeNodes(p, n.children)
           hasMeaningful == HasMeaningful(p, n.attributes)
           this == IF Skipped(p, n) THEN <<>>
                   ELSE IF ~hasMeaningful /\ Len(kids) = 1 THEN kids
                   ELSE IF ~hasMeaningful /\ Len(kids) = 0 THEN <<>>
                   ELSE <<[n EXCEPT !.children = kids]>>
       IN this \o optimizeNodes(p, Tail(ns))

\* extractInteractiveElements' test of one node.
IsListed(p, n) ==
  /\ \/ n.isInteractive
     \/ n.attributes.label
     \/ p = "ios" /\ n.attributes.desc
  /\ n.isVisible

RECURSIVE extractInteractiveElementsChildrenFirst(_, _)
\* A traverse that visits the children before it tests the node.
extractInteractiveElementsChildrenFirst(p, ns) ==
  IF ns = <<>> THEN <<>>
  ELSE extractInteractiveElementsChildrenFirst(p, ns[1].children)
       \o (IF IsListed(p, ns[1]) THEN <<ns[1]>> ELSE <<>>)
       \o extractInteractiveElementsChildrenFirst(p, Tail(ns))

RECURSIVE extractInteractiveElements(_, _)
\* extractInteractiveElements' traverse, in document order.
extractInteractiveElements(p, ns) ==
  IF ns = <<>> THEN <<>>
  ELSE (IF IsListed(p, ns[1]) THEN <<ns[1]>> ELSE <<>>)
       \o extractInteractiveElements(p, ns[1].children)
       \o extractInteractiveElements(p, Tail(ns))

\* formatElementsList: the index each element is listed under.
formatElementsList(elements) ==
  [i \in 1..Len(elements) |-> [index |-> i - 1, element |-> elements[i]]]

\* A processPageSource that also throws when no element is listed.
processPageSourceNeedsElements(p, src) ==
  LET optimizedRoot ==
        IF src = <<>> THEN <<>> ELSE optimizeNodes(p, <<elementToNode(p, src[1])>>)
      listed == extractInteractiveElements(p, optimizedRoot)
  IN IF src = <<>>
     THEN [state |-> "threw", error |-> "no root", optimizedRoot |-> <<>>,
           interactiveElements |-> <<>>]
     ELSE IF listed = <<>>
     THEN [state |-> "threw", error |-> "empty tree",
           optimizedRoot |-> optimizedRoot, interactiveElements |-> <<>>]
     ELSE [state |-> "ok", error |-> "none", optimizedRoot |-> optimizedRoot,
           interactiveElements |-> listed]

\* processPageSource: elementToNode reads the attributes of the root element
\* and throws when there is none ("no root"); after that it throws when
\* optimization leaves nothing.
processPageSource(p, src) ==
  LET optimizedRoot ==
        IF src = <<>> THEN <<>> ELSE optimizeNodes(p, <<elementToNode(p, src[1])>>)
  IN IF src = <<>>
     THEN [state |-> "threw", error |-> "no root", optimizedRoot |-> <<>>,
           interactiveElements |-> <<>>]
     ELSE IF optimizedRoot = <<>>
     THEN [state |-> "threw", error |-> "empty tree", optimizedRoot |-> <<>>,
           interactiveElements |-> <<>>]
     ELSE [state |-> "ok", error |-> "none", optimizedRoot |-> optimizedRoot,
           interactiveElements |->
             extractInteractiveElements(p, optimizedRoot)]

\* -------------------------------------------------------------- variables
VARIABLES
  pc,                 \* where the single cooperative task is
  step, failures,     \* Executor counters: loop steps, VALIDATE failures
  stepFailures,       \* Navigator turns that ended in a step failure
  phases,             \* how many PLAN, ACT and VALIDATE phases were entered
  sysEvents,          \* events emitted with actor SYSTEM, in order
  lateEvent,          \* an event was emitted after a terminal event
  paused, stopped,    \* AgentContext flags
  stateMessageAdded,  \* AgentContext.stateMessageAdded
  actionResults,      \* AgentContext.actionResults
  cachedState,        \* MobileContext.cachedState
  prevLen,            \* number of elements of the snapshot it superseded
  budget,             \* actions the model may still return in this run
  nActions, k,        \* doMultiAction: length of the list, next position
  results, errCount,  \* doMultiAction locals
  inv,                \* the most recent action invocation, with the ACT_*
                      \* events it emitted
  turnEvents,         \* STEP_* events emitted by the current Navigator turn
  navOut,             \* how NavigatorAgent.execute ended
  caught,             \* the error execute's catch block received
  history,            \* MessageManager: the kinds of the messages, oldest first
  inputMessages,      \* what getMessages() gave the turn's model call
  snapshots,          \* getState calls made for the staged state message
  again,              \* addStateMessageToMemory was called a second time
  written,            \* how often each of actionResults went to the history
  activeExecutors,    \* ExecutionManager.activeExecutors: session -> executor
  executors,          \* the Executor objects created, by the request that did
  requests,           \* the POST /api/agent requests and where each stands
  contexts,           \* device contexts created by appium.newContext()
  lastDelete,         \* the latest DELETE /api/agent and its response
  nEmitted,           \* how many events the session's Executor has emitted
  forwarders,         \* callbacks subscribed to the Executor's events
  listeners,          \* 'message' listeners of the session's EventEmitter
  conns,              \* the GET /api/agent connections and what each got
  platform, pageSource, \* the page source a view processor was handed
  viewOut,            \* what processPageSource made of it
  eventSource,        \* AgentPanel: the EventSource held in state (0: null)
  readyState,         \* the EventSource objects the panel created
  wire,               \* events written to each stream, not yet dispatched
  processed,          \* events each stream's onmessage handled, in order
  isLoading,          \* AgentPanel: a task is shown as running
  forceStopDevice,    \* AgentPanel: the forceStop prop of DeviceStream
  pending,            \* AgentPanel: handlers parked at their fetch
  mounted,            \* DeviceStream: the component is mounted
  forceStop,          \* DeviceStream: the forceStop prop
  eventSourceRef,     \* DeviceStream: the EventSource eventSourceRef holds
  retryCountRef,      \* DeviceStream: retryCountRef.current
  isConnected,        \* DeviceStream: isConnected
  mediaRecorderRef,   \* DeviceStream: the MediaRecorder the ref holds
  isRecording,        \* DeviceStream: isRecording
  timers,             \* DeviceStream: reconnect timers not yet fired
  strayRecorder,      \* a MediaRecorder no ref holds is still recording
  reconnects,         \* connections opened by timers since the last onopen
  cleanedUp,          \* cleanupStreams has run
  openedAfterCleanup  \* a connection was opened after cleanupStreams ran

vars == <<pc, step, failures, stepFailures, phases, sysEvents, lateEvent,
          paused, stopped,
          stateMessageAdded, actionResults, cachedState, prevLen, budget,
          nActions, k, results, errCount, inv, turnEvents, navOut, caught,
          history, inputMessages, snapshots, again, written, activeExecutors,
          executors, requests, contexts, lastDelete, nEmitted, forwarders,
          listeners, conns, platform, pageSource, viewOut, eventSource,
          readyState, wire, processed, isLoading, forceStopDevice, pending,
          mounted, forceStop, eventSourceRef, retryCountRef, isConnected,
          mediaRecorderRef, isRecording, timers, strayRecorder, reconnects,
          cleanedUp, openedAfterCleanup>>

memVars == <<history, inputMessages, snapshots, again, written>>

regVars == <<activeExecutors, executors, requests, contexts, lastDelete>>

subVars == <<nEmitted, forwarders, listeners, conns>>

viewVars == <<platform, pageSource, viewOut>>

panelVars == <<eventSource, readyState, wire, processed, isLoading,
               forceStopDevice, pending>>

streamVars == <<mounted, forceStop, eventSourceRef, retryCountRef,
                isConnected, mediaRecorderRef, isRecording, timers,
                strayRecorder, reconnects, cleanedUp, openedAfterCleanup>>

\* The two client components.
clientVars == <<panelVars, streamVars>>

\* The variables of the parts around the task-execution core.
sideVars == <<memVars, regVars, subVars, viewVars, clientVars>>

execVars == <<step, failures, stepFailures, phases, sysEvents, lateEvent>>

flagVars == <<paused, stopped>>

mobileVars == <<cachedState, prevLen>>

loopVars == <<nActions, k, results, errCount, inv>>

turnVars == <<stateMessageAdded, actionResults, budget, nActions, k, results,
              errCount, inv, turnEvents, caught>>

InitCommon ==
  /\ step = 0
  /\ failures = 0
  /\ stepFailures = 0
  /\ phases = [plan |-> 0, act |-> 0, validate |-> 0]
  /\ sysEvents = <<>>
  /\ lateEvent = FALSE
  /\ paused = FALSE
  /\ stopped = FALSE
  /\ stateMessageAdded = FALSE
  /\ actionResults = <<>>
  /\ cachedState = NoState
  /\ prevLen = 0
  /\ nActions = 0
  /\ k = 1
  /\ results = <<>>
  /\ errCount = 0
  /\ inv = NoInv
  /\ turnEvents = <<>>
  /\ navOut = NoOut
  /\ caught = NoErr
  /\ history = <<"system">>
  /\ inputMessages = <<>>
  /\ snapshots = 0
  /\ again = FALSE
  /\ written = <<>>
  /\ activeExecutors = [s \in Sessions |-> NoExecutor]
  /\ executors = [e \in ReqIds |-> NoExecutorObject]
  /\ requests = [r \in ReqIds |-> NoRequest]
  /\ contexts = 0
  /\ lastDelete = NoDelete
  /\ nEmitted = 0
  /\ forwarders = 0
  /\ listeners = <<>>
  /\ conns = [c \in ConnIds |-> NoConn]
  /\ platform = "none"
  /\ pageSource = NoSource
  /\ viewOut = NoViewOut
  /\ eventSource = 0
  /\ readyState = [r \in Streams |-> "none"]
  /\ wire = [r \in Streams |-> <<>>]
  /\ processed = [r \in Streams |-> <<>>]
  /\ isLoading = FALSE
  /\ forceStopDevice = FALSE
  /\ pending = [send |-> NotPending, stop |-> NotPending]
  /\ mounted = FALSE
  /\ forceStop = FALSE
  /\ eventSourceRef = "null"
  /\ retryCountRef = 0
  /\ isConnected = FALSE
  /\ mediaRecorderRef = "null"
  /\ isRecording = FALSE
  /\ timers = 0
  /\ strayRecorder = FALSE
  /\ reconnects = 0
  /\ cleanedUp = FALSE
  /\ openedAfterCleanup = FALSE

\* A context on which no turn has run yet.
Init == pc = "idle" /\ budget = MaxActions /\ InitCommon

\* The task is parked at an await of a turn (or between two turns): other
\* callbacks of the process can run.
TurnCalls == {"getState", "invoke", "inAction", "sleep", "directCall"}

\* The Executor is parked at an await of one of its phases.
PhaseCalls == {"planCall", "actCall", "validateCall"}

\* The top of a phase, where the stop and pause flags are checked.
Tops == {"planTop", "actTop", "validateTop"}

\* The ends of a run of the Executor.
Ended == {"done", "failed", "cancelled", "threw"}

Suspended ==
  \/ pc \in TurnCalls \cup {"idle", "navReturned"} \cup PhaseCalls
  \/ pc \in Tops /\ paused /\ ~stopped

\* ------------------------------------------------- NavigatorAgent.execute
\* execute leaves through `cancelled = true; return agentOutput' and its
\* finally block; pre are the events emitted just before.
NavCancelled(pre) ==
  /\ stateMessageAdded' = FALSE
  /\ turnEvents' = turnEvents \o SelectSeq(pre, IsStepEvent) \o <<"STEP_CANCEL">>
  /\ navOut' = [kind |-> "cancelled", done |-> FALSE]
  /\ pc' = "navReturned"

\* execute leaves through its catch block with error e.
NavCaught(e, pre) ==
  /\ stateMessageAdded' = FALSE
  /\ caught' = e
  /\ navOut' = [kind |-> ExecuteCatch(e).kind, done |-> FALSE]
  /\ turnEvents' = turnEvents \o SelectSeq(pre, IsStepEvent)
                               \o ExecuteCatch(e).events
  /\ pc' = "navReturned"

\* execute up to its first await: STEP_START, then addStateMessageToMemory
\* up to its call of getState.
NavExecuteStart ==
  /\ pc \in {"idle", "navReturned"}
  /\ turnEvents' = <<"STEP_START">>
  /\ nActions' = 0 /\ k' = 1 /\ results' = <<>> /\ errCount' = 0
  /\ inv' = NoInv /\ navOut' = NoOut /\ caught' = NoErr
  /\ IF stateMessageAdded
     THEN /\ pc' = "invoke"
          /\ UNCHANGED actionResults
     ELSE /\ pc' = "getState"
          /\ actionResults' = ResetIncluded(actionResults)
  /\ UNCHANGED <<execVars, flagVars, mobileVars, stateMessageAdded, budget,
                 sideVars>>

\* getState resolves with the snapshot of screen s.
GetStateOk(s) ==
  /\ pc = "getState"
  /\ cachedState' = CachedStateAfter("getState", cachedState,
                        [taken |-> TRUE, interactiveElements |-> s])
  /\ prevLen' = Len(cachedState.interactiveElements)
  /\ IF IsHalted(paused, stopped)
     THEN /\ NavCancelled(<<>>)
     ELSE /\ stateMessageAdded' = TRUE
          /\ pc' = "invoke"
          /\ UNCHANGED <<turnEvents, navOut>>
  /\ UNCHANGED <<execVars, flagVars, actionResults, budget, loopVars, caught,
                 sideVars>>

\* getState rejects at one of its driver calls or in the view processor.
GetStateFail(e) ==
  /\ pc = "getState"
  /\ NavCaught(e, <<>>)
  /\ \E st \in GetStateSteps, s \in Screens :
       cachedState' = CachedStateAfterReject(cachedState,
                          [taken |-> TRUE, interactiveElements |-> s], st)
  /\ UNCHANGED <<execVars, flagVars, prevLen, actionResults, budget,
                 loopVars, sideVars>>

\* The model call resolves with an output whose action member has format
\* fmt and n non-null items; execute runs on to the first action.
InvokeOk(fmt, n) ==
  /\ pc = "invoke"
  /\ n <= budget
  /\ fmt = "object" => n = 1
  /\ fmt = "badstring" => n = 0
  /\ budget' = budget - n
  /\ IF IsHalted(paused, stopped)
     THEN /\ NavCancelled(<<"STEP_LOG">>)
          /\ UNCHANGED <<loopVars, caught>>
     ELSE IF fmt = "badstring"
     THEN /\ NavCaught(Err(MsgBadFormat), <<"STEP_LOG">>)
          /\ UNCHANGED loopVars
     ELSE /\ stateMessageAdded' = FALSE
          /\ turnEvents' = Append(turnEvents, "STEP_LOG")
          /\ nActions' = n /\ k' = 1 /\ results' = <<>> /\ errCount' = 0
          /\ pc' = "loopTop"
          /\ UNCHANGED <<inv, navOut, caught>>
  /\ UNCHANGED <<execVars, flagVars, mobileVars, actionResults, sideVars>>

InvokeErrors == {InvokeWrap(e) : e \in ModelErrors} \cup {Err(MsgNoParse)}

\* The model call rejects, or returns nothing that parses.
InvokeFail(e) ==
  /\ pc = "invoke"
  /\ NavCaught(e, <<>>)
  /\ UNCHANGED <<execVars, flagVars, mobileVars, actionResults, budget,
                 loopVars, sideVars>>

\* ---------------------------------------------------------- doMultiAction
UsesIndex(item) == item.name \in {"click_element", "input_text"}

Items == [name : ItemNames, fields : SUBSET ArgFields, index : 0..MaxElems,
          stale : BOOLEAN]

\* The index argument as the handler sees it (-1: the handler takes none,
\* or is not reached).
IndexOf(item) ==
  IF UsesIndex(item) /\ safeParse(item.name, item.fields) THEN item.index
  ELSE -1

\* An item carries keys of its action's schema only (others are stripped);
\* stale marks an index the model took from the superseded snapshot.
WellFormedItem(item) ==
  /\ item.fields \subseteq RequiredKeys(item.name)
  /\ IndexOf(item) = -1 => (item.index = 0 /\ ~item.stale)
  /\ item.stale => item.index < prevLen

Invocation(item, seq, err, device, target, emitted) ==
  [seq |-> seq, name |-> item.name,
   valid |-> safeParse(item.name, item.fields), index |-> IndexOf(item),
   stale |-> item.stale, err |-> err, device |-> device, target |-> target,
   prevTarget |-> IF /\ item.name = "click_element"
                     /\ inv.device = "clickElement" /\ inv.err = "none"
                     /\ inv.index = IndexOf(item)
                  THEN inv.target ELSE NoElement,
   emitted |-> emitted]

\* A catch block that records no result for the action.
ActionCatchDropsResult(n) ==
  /\ errCount' = n + 1
  /\ IF TooManyErrors(n + 1)
     THEN /\ NavCaught(Err(MsgTooMany), <<>>)
          /\ UNCHANGED <<nActions, k, results>>
     ELSE /\ k' = k + 1
          /\ pc' = "loopTop"
          /\ UNCHANGED <<nActions, results, navOut, caught, stateMessageAdded,
                         turnEvents>>

\* The catch block of the action loop, entered with errCount = n.
ActionCatch(n) ==
  /\ errCount' = n + 1
  /\ IF TooManyErrors(n + 1)
     THEN /\ NavCaught(Err(MsgTooMany), <<>>)
          /\ UNCHANGED <<nActions, k, results>>
     ELSE /\ results' = Append(results, ErrorResult)
          /\ k' = k + 1
          /\ pc' = "loopTop"
          /\ UNCHANGED <<nActions, navOut, caught, stateMessageAdded,
                         turnEvents>>

\* One iteration of the for loop up to its first await.
NavDispatch(item) ==
  /\ pc = "loopTop"
  /\ k <= nActions
  /\ ~IsHalted(paused, stopped)
  /\ WellFormedItem(item)
  /\ IF item.name \in InheritedNames
     THEN /\ inv' = Invocation(item, k, "none", "none", NoElement, {})
          /\ results' = Append(results, EmptyResult)
          /\ k' = k + 1
          /\ pc' = "sleep"
          /\ UNCHANGED <<mobileVars, nActions, errCount, navOut, caught,
                         stateMessageAdded, turnEvents>>
     ELSE IF ~getAction(item.name)
     THEN /\ inv' = Invocation(item, k, "NotExists", "none", NoElement,
                               {"ACT_FAIL"})
          /\ ActionCatch(errCount)
          /\ UNCHANGED mobileVars
     ELSE IF ActionCall(item.name, item.fields) # "handler"
     THEN /\ inv' = Invocation(item, k, ActionCall(item.name, item.fields),
                               "none", NoElement, {"ACT_FAIL"})
          /\ ActionCatch(errCount)
          /\ UNCHANGED mobileVars
     ELSE IF item.name = "done"
     THEN /\ inv' = Invocation(item, k, "none", "none", NoElement,
                               {"ACT_START", "ACT_OK"})
          /\ results' = Append(results, DoneResult)
          /\ k' = k + 1
          /\ pc' = "sleep"
          /\ UNCHANGED <<mobileVars, nActions, errCount, navOut, caught,
                         stateMessageAdded, turnEvents>>
     ELSE IF UsesIndex(item) /\ ElementAt(cachedState, IndexOf(item)) = NoElement
     THEN /\ inv' = Invocation(item, k, "IndexNotFound", "none", NoElement,
                               {"ACT_START", "ACT_FAIL"})
          /\ ActionCatch(errCount)
          /\ cachedState' = CachedStateAfter(DeviceOp(item.name), cachedState,
                                             NoState)
          /\ UNCHANGED prevLen
     ELSE /\ inv' = Invocation(item, k, "pending", DeviceOp(item.name),
                       IF UsesIndex(item)
                       THEN ElementAt(cachedState, IndexOf(item))
                       ELSE NoElement,
                       {"ACT_START"})
          /\ cachedState' = CachedStateAfter(DeviceOp(item.name), cachedState,
                                             NoState)
          /\ pc' = "inAction"
          /\ UNCHANGED <<prevLen, nActions, k, results, errCount, navOut,
                         caught, stateMessageAdded, turnEvents>>
  /\ UNCHANGED <<execVars, flagVars, actionResults, budget, sideVars>>

\* The device call of the action in flight resolves.
NavActionOk ==
  /\ pc = "inAction"
  /\ results' = Append(results, OkResult)
  /\ k' = k + 1
  /\ inv' = [inv EXCEPT !.err = "none", !.emitted = @ \cup {"ACT_OK"}]
  /\ pc' = IF IsHalted(paused, stopped) THEN "loopTop" ELSE "sleep"
  /\ UNCHANGED <<execVars, flagVars, mobileVars, actionResults, budget,
                 nActions, errCount, navOut, caught, stateMessageAdded,
                 turnEvents, sideVars>>

\* The device call of the action in flight rejects.
NavActionFail ==
  /\ pc = "inAction"
  /\ inv' = [inv EXCEPT !.err = "DeviceError", !.emitted = @ \cup {"ACT_FAIL"}]
  /\ ActionCatch(errCount)
  /\ UNCHANGED <<execVars, flagVars, mobileVars, actionResults, budget, sideVars>>

\* The one-second wait after a successful action is over.
NavSleepDone ==
  /\ pc = "sleep"
  /\ pc' = "loopTop"
  /\ UNCHANGED <<execVars, flagVars, mobileVars, turnVars, navOut, sideVars>>

\* doMultiAction returns its results; execute stores them and finishes.
NavFinish ==
  /\ pc = "loopTop"
  /\ k > nActions \/ IsHalted(paused, stopped)
  /\ actionResults' = results
  /\ IF IsHalted(paused, stopped)
     THEN /\ NavCancelled(<<>>)
     ELSE /\ turnEvents' = Append(turnEvents, "STEP_OK")
          /\ navOut' = [kind |-> "ok", done |-> TurnDone(results)]
          /\ pc' = "navReturned"
          /\ UNCHANGED stateMessageAdded
  /\ UNCHANGED <<execVars, flagVars, mobileVars, budget, loopVars, caught,
                 sideVars>>

\* ------------------------------------------------- a call by the registry
\* A caller that has run no turn on this context takes a snapshot itself.
DirectGetState(s) ==
  /\ pc = "idle"
  /\ inv = NoInv
  /\ ~cachedState.taken
  /\ cachedState' = CachedStateAfter("getState", cachedState,
                        [taken |-> TRUE, interactiveElements |-> s])
  /\ prevLen' = Len(cachedState.interactiveElements)
  /\ UNCHANGED <<pc, execVars, flagVars, turnVars, navOut, sideVars>>

\* registry.getAction(name).call(args) by such a caller, with or without a
\* snapshot; an error is thrown to that caller.
DirectCall(item) ==
  /\ pc = "idle"
  /\ inv = NoInv
  /\ getAction(item.name)
  /\ WellFormedItem(item)
  /\ IF ActionCall(item.name, item.fields) # "handler"
     THEN /\ inv' = Invocation(item, 0, ActionCall(item.name, item.fields),
                               "none", NoElement, {})
          /\ UNCHANGED <<pc, mobileVars>>
     ELSE IF item.name = "done"
     THEN /\ inv' = Invocation(item, 0, "none", "none", NoElement,
                               {"ACT_START", "ACT_OK"})
          /\ UNCHANGED <<pc, mobileVars>>
     ELSE IF UsesIndex(item) /\ ElementAt(cachedState, IndexOf(item)) = NoElement
     THEN /\ inv' = Invocation(item, 0, "IndexNotFound", "none", NoElement,
                               {"ACT_START"})
          /\ cachedState' = CachedStateAfter(DeviceOp(item.name), cachedState,
                                             NoState)
          /\ UNCHANGED <<pc, prevLen>>
     ELSE /\ inv' = Invocation(item, 0, "pending", DeviceOp(item.name),
                       IF UsesIndex(item)
                       THEN ElementAt(cachedState, IndexOf(item))
                       ELSE NoElement,
                       {"ACT_START"})
          /\ cachedState' = CachedStateAfter(DeviceOp(item.name), cachedState,
                                             NoState)
          /\ pc' = "directCall"
          /\ UNCHANGED prevLen
  /\ UNCHANGED <<execVars, flagVars, stateMessageAdded, actionResults, budget,
                 nActions, k, results, errCount, turnEvents, navOut, caught,
                 sideVars>>

\* The device call of a direct call settles.
DirectReturn(ok) ==
  /\ pc = "directCall"
  /\ inv' = IF ok
            THEN [inv EXCEPT !.err = "none", !.emitted = @ \cup {"ACT_OK"}]
            ELSE [inv EXCEPT !.err = "DeviceError"]
  /\ pc' = "idle"
  /\ UNCHANGED <<execVars, flagVars, mobileVars, stateMessageAdded,
                 actionResults, budget, nActions, k, results, errCount,
                 turnEvents, navOut, caught, sideVars>>

\* ------------------------------------------------ requests from outside
\* DELETE /api/agent: executor.cancel() sets the stop flag.
Cancel ==
  /\ Suspended
  /\ ~stopped
  /\ stopped' = TRUE
  /\ UNCHANGED <<pc, execVars, paused, mobileVars, turnVars, navOut, sideVars>>

Pause ==
  /\ Suspended
  /\ ~paused /\ ~stopped
  /\ paused' = TRUE
  /\ UNCHANGED <<pc, execVars, stopped, mobileVars, turnVars, navOut, sideVars>>

Resume ==
  /\ Suspended
  /\ paused /\ ~stopped
  /\ paused' = FALSE
  /\ UNCHANGED <<pc, execVars, stopped, mobileVars, turnVars, navOut, sideVars>>

\* GET /api/play: the one-second timer takes a screenshot for the preview.
ScreenshotPoll ==
  /\ Suspended
  /\ cachedState' = CachedStateAfter("base64Screenshot", cachedState, NoState)
  /\ UNCHANGED <<pc, execVars, flagVars, prevLen, turnVars, navOut, sideVars>>

\* --------------------------------------------------------------- Executor
\* The control loop INIT -> (PLAN -> ACT -> VALIDATE)* -> DONE | FAILED |
\* CANCELLED.  A Navigator turn appears here by its outcome only; the turn
\* itself is the subject of Spec.

\* An Executor that unwinds on an authentication error without an event.
TerminalForSilentAuth(end) ==
  CASE end = "done" -> "TASK_OK"
    [] end = "failed" -> "TASK_FAIL"
    [] end = "forced" -> "TASK_FAIL"
    [] end = "cancelled" -> "TASK_CANCEL"
    [] OTHER -> "none"

\* The event that closes a run, by the way the run ends.
TerminalFor(end) ==
  CASE end = "done" -> "TASK_OK"
    [] end = "failed" -> "TASK_FAIL"
    [] end = "forced" -> "TASK_FAIL"
    [] end = "cancelled" -> "TASK_CANCEL"
    [] end = "auth" -> "TASK_FAIL"
    [] OTHER -> "none"

EndState(end) ==
  CASE end = "done" -> "done"
    [] end = "cancelled" -> "cancelled"
    [] end = "auth" -> "threw"
    [] OTHER -> "failed"

\* emitEvent(Actors.SYSTEM, e); "none" emits nothing.
EmitSys(e) ==
  /\ sysEvents' = IF e = "none" THEN sysEvents ELSE Append(sysEvents, e)
  /\ lateEvent' = (lateEvent \/ (e # "none" /\ HasTerminal(sysEvents)))

\* An event of a phase's agent (planner, navigator, validator).
EmitPhase ==
  /\ lateEvent' = (lateEvent \/ HasTerminal(sysEvents))
  /\ UNCHANGED sysEvents

\* The run ends.
Terminate(end) ==
  /\ EmitSys(TerminalFor(end))
  /\ pc' = EndState(end)

\* A threshold that a counter has to exceed, not just reach.
TooManyFailuresLater(n) == n > MaxFailures

\* A failure counter has used up the configured threshold.
TooManyFailures(n) == n >= MaxFailures

\* A step limit that lets one more step through.
StepLimitReachedLater(n) == n > MaxSteps

\* while (step < maxSteps): the loop's condition fails.
StepLimitReached(n) == n >= MaxSteps

\* One more phase of kind ph has been entered.
Entered(ph) == [phases EXCEPT ![ph] = @ + 1]

nonExecVars == <<stateMessageAdded, actionResults, cachedState, prevLen,
                 budget, nActions, k, results, errCount, inv, turnEvents,
                 caught>>

\* INIT: reset the step counter and announce the task.
ExecStart ==
  /\ pc = "init"
  /\ step' = 0
  /\ EmitSys("TASK_START")
  /\ pc' = "planTop"
  /\ UNCHANGED <<failures, stepFailures, phases, flagVars, navOut, nonExecVars,
                 sideVars>>

\* The stop flag is seen at the top of a phase.
ExecCancel ==
  /\ pc \in Tops
  /\ stopped
  /\ Terminate("cancelled")
  /\ UNCHANGED <<step, failures, stepFailures, phases, flagVars, navOut,
                 nonExecVars, sideVars>>

\* The step counter has reached the configured maximum.
ExecForcedStop ==
  /\ pc = "planTop"
  /\ ~IsHalted(paused, stopped)
  /\ StepLimitReached(step)
  /\ Terminate("forced")
  /\ UNCHANGED <<step, failures, stepFailures, phases, flagVars, navOut,
                 nonExecVars, sideVars>>

\* PLAN begins: the Planner is invoked.
PlanBegin ==
  /\ pc = "planTop"
  /\ ~IsHalted(paused, stopped)
  /\ ~StepLimitReached(step)
  /\ EmitPhase
  /\ phases' = Entered("plan")
  /\ pc' = "planCall"
  /\ UNCHANGED <<step, failures, stepFailures, flagVars, navOut, nonExecVars,
                 sideVars>>

PlanOutcomes == {"done", "continue", "auth"}

\* A loop that looks at the Planner's verdict only after the step's ACT.
PlanReturnActsFirst(o) ==
  /\ pc = "planCall"
  /\ IF stopped THEN Terminate("cancelled") /\ UNCHANGED phases
     ELSE IF o = "auth" THEN Terminate("auth") /\ UNCHANGED phases
     ELSE EmitPhase /\ pc' = "actTop" /\ phases' = Entered("act")
  /\ UNCHANGED <<step, failures, stepFailures, flagVars, navOut, nonExecVars,
                 sideVars>>

\* The Planner's call returns: `if (plan.done) break', else on to ACT.
PlanReturn(o) ==
  /\ pc = "planCall"
  /\ IF stopped THEN Terminate("cancelled") /\ UNCHANGED phases
     ELSE IF o = "auth" THEN Terminate("auth") /\ UNCHANGED phases
     ELSE IF o = "done" THEN Terminate("done") /\ UNCHANGED phases
     ELSE EmitPhase /\ pc' = "actTop" /\ phases' = Entered("act")
  /\ UNCHANGED <<step, failures, stepFailures, flagVars, navOut, nonExecVars,
                 sideVars>>

\* ACT: NavigatorAgent.execute is called.  A turn that a pause cut short is
\* called again within the same ACT phase.
ActBegin ==
  /\ pc = "actTop"
  /\ ~IsHalted(paused, stopped)
  /\ pc' = "actCall"
  /\ navOut' = NoOut
  /\ UNCHANGED <<execVars, flagVars, nonExecVars, sideVars>>

TurnOutcomes ==
  {[kind |-> "ok", done |-> d] : d \in BOOLEAN} \cup
  {[kind |-> c, done |-> FALSE] : c \in {"cancelled", "error", "throw"}}

\* What a turn can return under the flags it finds at its last check.
TurnOutcomeAllowed(o, p, s) ==
  /\ o.kind = "cancelled" => IsHalted(p, s)
  /\ o.kind = "ok" => ~IsHalted(p, s)

\* The Navigator's turn returns o.  A failed step counts toward the failure
\* threshold on a counter of its own.
ActReturn(o) ==
  /\ pc = "actCall"
  /\ TurnOutcomeAllowed(o, paused, stopped)
  /\ navOut' = o
  /\ IF o.kind = "throw"
     THEN Terminate("auth") /\ UNCHANGED <<stepFailures, phases>>
     ELSE IF stopped
     THEN Terminate("cancelled") /\ UNCHANGED <<stepFailures, phases>>
     ELSE IF o.kind = "cancelled"
     THEN EmitPhase /\ pc' = "actTop" /\ UNCHANGED <<stepFailures, phases>>
     ELSE IF o.kind = "error"
     THEN /\ stepFailures' = stepFailures + 1
          /\ IF TooManyFailures(stepFailures + 1)
             THEN Terminate("failed") /\ UNCHANGED phases
             ELSE /\ EmitPhase
                  /\ pc' = "validateTop"
                  /\ phases' = Entered("validate")
     ELSE IF o.done
     THEN Terminate("done") /\ UNCHANGED <<stepFailures, phases>>
     ELSE /\ EmitPhase
          /\ pc' = "validateTop"
          /\ phases' = Entered("validate")
          /\ UNCHANGED stepFailures
  /\ UNCHANGED <<step, failures, flagVars, nonExecVars, sideVars>>

\* VALIDATE begins: the Validator is invoked.
ValidateBegin ==
  /\ pc = "validateTop"
  /\ ~IsHalted(paused, stopped)
  /\ EmitPhase
  /\ pc' = "validateCall"
  /\ UNCHANGED <<step, failures, stepFailures, phases, flagVars, navOut,
                 nonExecVars, sideVars>>

ValidateOutcomes == {"pass", "fail", "auth"}

\* The Validator's call returns; the step is over.
ValidateReturn(o) ==
  /\ pc = "validateCall"
  /\ IF stopped
     THEN Terminate("cancelled") /\ UNCHANGED <<step, failures>>
     ELSE IF o = "auth"
     THEN Terminate("auth") /\ UNCHANGED <<step, failures>>
     ELSE IF o = "fail"
     THEN /\ failures' = failures + 1
          /\ IF TooManyFailures(failures + 1)
             THEN Terminate("failed") /\ UNCHANGED step
             ELSE EmitPhase /\ pc' = "planTop" /\ step' = step + 1
     ELSE /\ EmitPhase /\ pc' = "planTop" /\ step' = step + 1
          /\ UNCHANGED failures
  /\ UNCHANGED <<stepFailures, phases, flagVars, navOut, nonExecVars, sideVars>>

\* ------------------------------------------------------------------- Next
Next ==
  \/ NavExecuteStart
  \/ \E s \in Screens : GetStateOk(s)
  \/ \E e \in DeviceErrors : GetStateFail(e)
  \/ \E fmt \in {"array", "string", "object", "badstring"} :
       \E n \in 0..MaxActions : InvokeOk(fmt, n)
  \/ \E e \in InvokeErrors : InvokeFail(e)
  \/ \E item \in Items : NavDispatch(item)
  \/ NavActionOk
  \/ NavActionFail
  \/ NavSleepDone
  \/ NavFinish
  \/ \E s \in Screens : DirectGetState(s)
  \/ \E item \in Items : DirectCall(item)
  \/ \E ok \in BOOLEAN : DirectReturn(ok)
  \/ Cancel
  \/ Pause
  \/ Resume
  \/ ScreenshotPoll

Spec == Init /\ [][Next]_vars

\* ------------------------------------------- turns over plain actions only
\* A scroll with its argument, which reaches the device, and an action the
\* registry does not know.
PlainItems ==
  {item \in Items :
     /\ item.name \in {"scroll_down", "go_back"}
     /\ item.fields = RequiredKeys(item.name) \cap ArgFields
     /\ item.index = 0 /\ ~item.stale}

InitActs == pc = "idle" /\ budget = MaxTurnActions /\ InitCommon

NextActs ==
  \/ NavExecuteStart
  \/ GetStateOk(<<>>)
  \/ \E n \in 1..MaxTurnActions : InvokeOk("array", n)
  \/ \E item \in PlainItems : NavDispatch(item)
  \/ NavActionOk
  \/ NavActionFail
  \/ NavSleepDone
  \/ NavFinish

\* Turns whose model outputs hold up to MaxTurnActions actions altogether,
\* each of which succeeds or fails, with no request from outside.
SpecActs == InitActs /\ [][NextActs]_vars

\* A freshly constructed Executor.
InitExec == pc = "init" /\ budget = MaxActions /\ InitCommon

NextExec ==
  \/ ExecStart
  \/ ExecCancel
  \/ ExecForcedStop
  \/ PlanBegin
  \/ \E o \in PlanOutcomes : PlanReturn(o)
  \/ ActBegin
  \/ \E o \in TurnOutcomes : ActReturn(o)
  \/ ValidateBegin
  \/ \E o \in ValidateOutcomes : ValidateReturn(o)
  \/ Cancel
  \/ Pause
  \/ Resume

SpecExec == InitExec /\ [][NextExec]_vars

\* The Executor's own steps: everything but the user's requests.
ExecStep ==
  \/ ExecStart
  \/ ExecCancel
  \/ ExecForcedStop
  \/ PlanBegin
  \/ \E o \in PlanOutcomes : PlanReturn(o)
  \/ ActBegin
  \/ \E o \in TurnOutcomes : ActReturn(o)
  \/ ValidateBegin
  \/ \E o \in ValidateOutcomes : ValidateReturn(o)

\* Every call of a phase returns and the loop runs on whenever it can.
SpecExecFair == SpecExec /\ WF_vars(ExecStep)

\* ---------------------------------------------------------- MessageManager
\* The message history by the kinds of its messages: the pinned system
\* message, action results and errors, model outputs and the state message.
\* The manager's source file is not part of the tree; it follows section 4.4
\* of the specification.
MessageKinds == {"system", "result", "error", "output", "state"}

Count(h, kind) == Cardinality({i \in 1..Len(h) : h[i] = kind})

RemoveAt(h, i) == SubSeq(h, 1, i - 1) \o SubSeq(h, i + 1, Len(h))

\* The messages eviction may take: neither the pinned first one nor the
\* state message.
Evictable(h) == {i \in 2..Len(h) : h[i] # "state"}

RECURSIVE Evict(_)
\* Over the budget, the oldest evictable message goes first.
Evict(h) ==
  IF Len(h) <= MaxTokens \/ Evictable(h) = {} THEN h
  ELSE Evict(RemoveAt(h, CHOOSE i \in Evictable(h) :
                           \A j \in Evictable(h) : i <= j))

addMessageWithTokens(h, m) == Evict(Append(h, m))

\* The last state message of the history is taken out.
removeLastStateMessage(h) ==
  IF Count(h, "state") = 0 THEN h
  ELSE RemoveAt(h, CHOOSE i \in 1..Len(h) :
                     h[i] = "state" /\ \A j \in (i + 1)..Len(h) : h[j] # "state")

\* A state message replaces the one that is staged.
addStateMessage(h) ==
  Evict(Append(SelectSeq(h, LAMBDA m : m # "state"), "state"))

getMessages(h) == h

\* ------------------------------------------- the Navigator's use of memory
RECURSIVE ResultMessages(_)
\* The messages addStateMessageToMemory writes for the results of the turn
\* before: `Action result: ...' and `Action error: ...' of those included.
ResultMessages(rs) ==
  IF rs = <<>> THEN <<>>
  ELSE (IF rs[1].includeInMemory /\ rs[1].extractedContent
        THEN <<"result">> ELSE <<>>)
       \o (IF rs[1].includeInMemory /\ rs[1].error
           THEN <<"error">> ELSE <<>>)
       \o ResultMessages(Tail(rs))

RECURSIVE AddAll(_, _)
AddAll(h, ms) ==
  IF ms = <<>> THEN h ELSE AddAll(addMessageWithTokens(h, ms[1]), Tail(ms))

\* An addStateMessageToMemory without its first line.
AddStateMessagePreludeUnguarded(added, rs, h) ==
  [fetch |-> TRUE,
   actionResults |-> ResetIncluded(rs),
   history |-> AddAll(h, ResultMessages(rs))]

\* addStateMessageToMemory up to its await of getUserMessage: nothing when a
\* state message is staged, else the results go to memory and are reset, and
\* the snapshot is fetched.
AddStateMessagePrelude(added, rs, h) ==
  IF added
  THEN [fetch |-> FALSE, actionResults |-> rs, history |-> h]
  ELSE [fetch |-> TRUE,
        actionResults |-> ResetIncluded(rs),
        history |-> AddAll(h, ResultMessages(rs))]

\* The count of writes of each result after addStateMessageToMemory has run
\* over the results rs.
WrittenAfter(added, rs, w) ==
  IF added THEN w
  ELSE [i \in 1..Len(rs) |->
          IF rs[i].includeInMemory /\ (rs[i].extractedContent \/ rs[i].error)
          THEN w[i] + 1 ELSE w[i]]

\* A removal that forgets the message manager.
RemoveFlagOnly(added, h) == h

\* removeLastStateMessageFromMemory, as far as the history goes.
removeLastStateMessageFromMemory(added, h) ==
  IF added THEN removeLastStateMessage(h) ELSE h

addModelOutputToMemory(h) == addMessageWithTokens(h, "output")

\* The model output recorded next to the state message it answers.
RecordModelOutputKeepsState(added, h) == addModelOutputToMemory(h)

\* execute, lines 155-156: the state message goes, the model output comes.
RecordModelOutput(added, h) ==
  addModelOutputToMemory(removeLastStateMessageFromMemory(added, h))

\* What doMultiAction can hand back.
ResultSeqs ==
  UNION {[1..n -> {OkResult, ErrorResult, DoneResult}] : n \in 0..MaxResults}

memFrame == <<execVars, flagVars, budget, loopVars, regVars, subVars,
              viewVars, clientVars>>

\* The exits of execute that run removeLastStateMessageFromMemory.
MemCancelled(pre) ==
  /\ NavCancelled(pre)
  /\ history' = removeLastStateMessageFromMemory(stateMessageAdded, history)
  /\ snapshots' = 0

MemCaught(e, pre) ==
  /\ NavCaught(e, pre)
  /\ history' = removeLastStateMessageFromMemory(stateMessageAdded, history)
  /\ snapshots' = 0

\* execute up to its first await, inside addStateMessageToMemory.
MemExecuteStart ==
  /\ pc \in {"idle", "navReturned"}
  /\ LET p == AddStateMessagePrelude(stateMessageAdded, actionResults, history)
     IN /\ actionResults' = p.actionResults
        /\ written' = WrittenAfter(stateMessageAdded, actionResults, written)
        /\ again' = FALSE
        /\ caught' = NoErr
        /\ IF p.fetch
           THEN /\ history' = p.history
                /\ inputMessages' = <<>>
                /\ turnEvents' = <<"STEP_START">>
                /\ navOut' = NoOut
                /\ pc' = "getState"
                /\ UNCHANGED <<stateMessageAdded, snapshots>>
           ELSE IF IsHalted(paused, stopped)
           THEN /\ turnEvents' = <<"STEP_START", "STEP_CANCEL">>
                /\ navOut' = [kind |-> "cancelled", done |-> FALSE]
                /\ stateMessageAdded' = FALSE
                /\ history' = removeLastStateMessageFromMemory(TRUE, p.history)
                /\ inputMessages' = <<>>
                /\ snapshots' = 0
                /\ pc' = "navReturned"
           ELSE /\ history' = p.history
                /\ inputMessages' = getMessages(p.history)
                /\ turnEvents' = <<"STEP_START">>
                /\ navOut' = NoOut
                /\ pc' = "invoke"
                /\ UNCHANGED <<stateMessageAdded, snapshots>>
  /\ UNCHANGED <<memFrame, mobileVars>>

\* getState resolves: the state message is staged and, unless the task is
\* halted, getMessages() is taken for the model call.
MemGetStateOk(s) ==
  /\ pc = "getState"
  /\ cachedState' = CachedStateAfter("getState", cachedState,
                        [taken |-> TRUE, interactiveElements |-> s])
  /\ prevLen' = Len(cachedState.interactiveElements)
  /\ IF IsHalted(paused, stopped)
     THEN /\ NavCancelled(<<>>)
          /\ history' = removeLastStateMessageFromMemory(
                            TRUE, addStateMessage(history))
          /\ snapshots' = 0
          /\ UNCHANGED inputMessages
     ELSE /\ history' = addStateMessage(history)
          /\ stateMessageAdded' = TRUE
          /\ snapshots' = snapshots + 1
          /\ inputMessages' = getMessages(addStateMessage(history))
          /\ pc' = "invoke"
          /\ UNCHANGED <<turnEvents, navOut>>
  /\ UNCHANGED <<memFrame, actionResults, caught,
                 again, written>>

MemGetStateFail(e) ==
  /\ pc = "getState"
  /\ MemCaught(e, <<>>)
  /\ UNCHANGED <<memFrame, mobileVars, actionResults, inputMessages,
                 again, written>>

\* The model call resolves with an output.
MemInvokeOk ==
  /\ pc = "invoke"
  /\ IF IsHalted(paused, stopped)
     THEN MemCancelled(<<"STEP_LOG">>)
     ELSE /\ history' = RecordModelOutput(stateMessageAdded, history)
          /\ stateMessageAdded' = FALSE
          /\ snapshots' = 0
          /\ turnEvents' = Append(turnEvents, "STEP_LOG")
          /\ pc' = "inAction"
          /\ UNCHANGED navOut
  /\ UNCHANGED <<memFrame, mobileVars, actionResults, caught, inputMessages,
                 again, written>>

MemInvokeFail(e) ==
  /\ pc = "invoke"
  /\ MemCaught(e, <<>>)
  /\ UNCHANGED <<memFrame, mobileVars, actionResults, inputMessages,
                 again, written>>

\* doMultiAction returns rs; execute stores them and finishes.
MemActionsReturn(rs) ==
  /\ pc = "inAction"
  /\ actionResults' = rs
  /\ written' = [i \in 1..Len(rs) |-> 0]
  /\ IF IsHalted(paused, stopped)
     THEN MemCancelled(<<>>)
     ELSE /\ turnEvents' = Append(turnEvents, "STEP_OK")
          /\ navOut' = [kind |-> "ok", done |-> TurnDone(rs)]
          /\ pc' = "navReturned"
          /\ UNCHANGED <<stateMessageAdded, history, snapshots>>
  /\ UNCHANGED <<memFrame, mobileVars, caught, inputMessages, again>>

\* doMultiAction throws after too many errors.
MemActionsThrow ==
  /\ pc = "inAction"
  /\ MemCaught(Err(MsgTooMany), <<>>)
  /\ UNCHANGED <<memFrame, mobileVars, actionResults, inputMessages,
                 again, written>>

\* The public addStateMessageToMemory is called once more while the turn's
\* model call is pending.
MemAddStateAgain(s) ==
  /\ pc = "invoke"
  /\ again' = TRUE
  /\ LET p == AddStateMessagePrelude(stateMessageAdded, actionResults, history)
     IN /\ actionResults' = p.actionResults
        /\ written' = WrittenAfter(stateMessageAdded, actionResults, written)
        /\ IF p.fetch
           THEN /\ history' = addStateMessage(p.history)
                /\ snapshots' = snapshots + 1
                /\ cachedState' = CachedStateAfter("getState", cachedState,
                                      [taken |-> TRUE, interactiveElements |-> s])
                /\ prevLen' = Len(cachedState.interactiveElements)
           ELSE /\ history' = p.history
                /\ UNCHANGED <<snapshots, mobileVars>>
  /\ UNCHANGED <<pc, memFrame, stateMessageAdded, turnEvents, navOut, caught,
                 inputMessages>>

NextMem ==
  \/ MemExecuteStart
  \/ \E s \in Screens : MemGetStateOk(s)
  \/ \E e \in DeviceErrors : MemGetStateFail(e)
  \/ MemInvokeOk
  \/ \E e \in InvokeErrors : MemInvokeFail(e)
  \/ \E rs \in ResultSeqs : MemActionsReturn(rs)
  \/ MemActionsThrow
  \/ \E s \in Screens : MemAddStateAgain(s)
  \/ Cancel
  \/ Pause
  \/ Resume

\* The turns of one Navigator over its message history.
SpecMem == Init /\ [][NextMem]_vars

\* ------------------------------------------------------ /api/agent routes
coreVars == <<pc, execVars, flagVars, mobileVars, turnVars, navOut>>

regFrame == <<coreVars, memVars, subVars, viewVars, clientVars>>

\* POST up to `await appium.newContext()': a session that has an executor is
\* turned away with 409.
PostCheck(r, s) ==
  /\ requests[r].pc = "unsent"
  /\ \A q \in ReqIds : q < r => requests[q].pc # "unsent"
  /\ IF hasExecutor(activeExecutors, s)
     THEN requests' = [requests EXCEPT
                         ![r] = [session |-> s, pc |-> "done", status |-> 409]]
     ELSE requests' = [requests EXCEPT
                         ![r] = [session |-> s, pc |-> "newContext", status |-> 0]]
  /\ UNCHANGED <<activeExecutors, executors, contexts, lastDelete, regFrame>>

\* newContext resolves: the Executor is created, registered and started in
\* the background.
PostCreate(r) ==
  /\ requests[r].pc = "newContext"
  /\ contexts' = contexts + 1
  /\ executors' = [executors EXCEPT
                     ![r] = [session |-> requests[r].session,
                             status |-> "running",
                             stopped |-> FALSE, cleaned |-> FALSE]]
  /\ activeExecutors' = setExecutor(activeExecutors, requests[r].session, r)
  /\ requests' = [requests EXCEPT ![r].pc = "done", ![r].status = 200]
  /\ UNCHANGED <<lastDelete, regFrame>>

\* newContext rejects: the catch block answers 500.
PostContextFails(r) ==
  /\ requests[r].pc = "newContext"
  /\ requests' = [requests EXCEPT ![r].pc = "done", ![r].status = 500]
  /\ UNCHANGED <<activeExecutors, executors, contexts, lastDelete, regFrame>>

\* execute() settles: the finally callback cleans up and unregisters the
\* session id.
ExecutorSettles(e) ==
  /\ executors[e].status = "running"
  /\ executors' = [executors EXCEPT ![e].status = "settled",
                                    ![e].cleaned = TRUE]
  /\ activeExecutors' = removeExecutor(activeExecutors, executors[e].session)
  /\ UNCHANGED <<requests, contexts, lastDelete, regFrame>>

\* DELETE: 404 for a session without executor; else the executor is told to
\* cancel and the session id is unregistered.
Delete(s) ==
  /\ LET e == getExecutor(activeExecutors, s)
     IN IF e = NoExecutor
        THEN /\ lastDelete' = [session |-> s, status |-> 404, executor |-> e]
             /\ UNCHANGED <<activeExecutors, executors>>
        ELSE /\ executors' = [executors EXCEPT ![e].stopped = TRUE]
             /\ activeExecutors' = removeExecutor(activeExecutors, s)
             /\ lastDelete' = [session |-> s, status |-> 200, executor |-> e]
  /\ UNCHANGED <<requests, contexts, regFrame>>

NextReg ==
  \/ \E r \in ReqIds : \E s \in Sessions : PostCheck(r, s)
  \/ \E r \in ReqIds : PostCreate(r)
  \/ \E r \in ReqIds : PostContextFails(r)
  \/ \E e \in ReqIds : ExecutorSettles(e)
  \/ \E s \in Sessions : Delete(s)

\* The server under create-session and cancel requests.
SpecReg == Init /\ [][NextReg]_vars

\* An Executor that was told to cancel settles.
SpecRegFair ==
  SpecReg /\ \A e \in ReqIds : WF_vars(executors[e].stopped /\ ExecutorSettles(e))

\* ------------------------------------------------- GET /api/agent (events)
subFrame == <<coreVars, memVars, regVars, viewVars, clientVars>>

\* GET for a session whose executor is registered: a listener for this
\* connection is attached to the session's emitter, and one more callback
\* that forwards to the emitter is subscribed to the executor's events.
GetEvents(c) ==
  /\ conns[c].state = "none"
  /\ \A d \in ConnIds : d < c => conns[d].state # "none"
  /\ conns' = [conns EXCEPT ![c] = [state |-> "open",
                                    attachedAt |-> nEmitted,
                                    received |-> <<>>]]
  /\ listeners' = Append(listeners, c)
  /\ forwarders' = forwarders + 1
  /\ UNCHANGED <<nEmitted, subFrame>>

\* The request is aborted: the connection's listener is removed.
CloseEvents(c) ==
  /\ conns[c].state = "open"
  /\ conns' = [conns EXCEPT ![c].state = "closed"]
  /\ listeners' = SelectSeq(listeners, LAMBDA d : d # c)
  /\ UNCHANGED <<nEmitted, forwarders, subFrame>>

\* The Executor emits its next event: every subscribed callback in turn
\* emits it on the emitter, which hands it to every listener.
EmitEvent ==
  /\ nEmitted < MaxEvents
  /\ nEmitted' = nEmitted + 1
  /\ conns' = [c \in ConnIds |->
                 IF c \in Range(listeners)
                 THEN [conns[c] EXCEPT
                         !.received = @ \o Copies(nEmitted + 1, forwarders)]
                 ELSE conns[c]]
  /\ UNCHANGED <<forwarders, listeners, subFrame>>

NextSub ==
  \/ \E c \in ConnIds : GetEvents(c)
  \/ \E c \in ConnIds : CloseEvents(c)
  \/ EmitEvent

\* The event streams of one session with a registered executor.
SpecSub == Init /\ [][NextSub]_vars

\* ------------------------------------------------------- processPageSource
viewFrame == <<coreVars, memVars, regVars, subVars, clientVars>>

\* The driver hands the processor of some platform some page source: one
\* without a root element, one element of any kind, or up to MaxNodes of the
\* core elements in any tree shape.  The processors keep nothing between
\* calls, so one call per run covers them.
ViewGetSource ==
  /\ viewOut.state = "none"
  /\ \E p \in Platforms :
       /\ platform' = p
       /\ \/ pageSource' = <<>>
          \/ \E e \in Elements : pageSource' = <<[el |-> e, kids |-> <<>>]>>
          \/ \E m \in 2..MaxNodes :
               \E sh \in Shapes(m), lab \in [1..m -> CoreElements] :
                 pageSource' = Labelled(sh, lab, 1)
  /\ viewOut' = [NoViewOut EXCEPT !.state = "pending"]
  /\ UNCHANGED viewFrame

\* processPageSource runs on it.
ViewProcess ==
  /\ viewOut.state = "pending"
  /\ viewOut' = processPageSource(platform, pageSource)
  /\ UNCHANGED <<platform, pageSource, viewFrame>>

NextView ==
  \/ ViewGetSource
  \/ ViewProcess

\* The two view processors over every page source.
SpecView == Init /\ [][NextView]_vars

\* -------------------------------------------------------------- AgentPanel
panelFrame == <<coreVars, memVars, regVars, subVars, viewVars, streamVars>>

\* EventSource.close().
CloseSource(rs, r) ==
  IF r = NullSource THEN rs ELSE [rs EXCEPT ![r] = "closed"]

\* setEventSource(v): the cleanup of the effect on [eventSource] closes the
\* EventSource the state held before.
SetEventSource(rs, v) ==
  IF eventSource = v THEN rs ELSE CloseSource(rs, eventSource)

\* handleSendMessage up to its fetch.
PanelSend ==
  /\ pending.send = NotPending
  /\ \E r \in Streams : readyState[r] = "none"
  /\ forceStopDevice' = FALSE
  /\ isLoading' = TRUE
  /\ pending' = [pending EXCEPT !.send = eventSource]
  /\ UNCHANGED <<eventSource, readyState, wire, processed, panelFrame>>

\* The POST answered: setupExecutorSSE on success (the EventSource the
\* handler's render held is closed and a new one is created), the catch
\* block otherwise.
PanelPostReturns(ok) ==
  /\ pending.send # NotPending
  /\ pending' = [pending EXCEPT !.send = NotPending]
  /\ IF ok
     THEN LET r == CHOOSE q \in Streams :
                     /\ readyState[q] = "none"
                     /\ \A o \in Streams : o < q => readyState[o] # "none"
              rs == [CloseSource(readyState, pending.send) EXCEPT ![r] = "open"]
          IN /\ readyState' = SetEventSource(rs, r)
             /\ eventSource' = r
             /\ UNCHANGED isLoading
     ELSE /\ isLoading' = FALSE
          /\ IF pending.send # NullSource
             THEN /\ readyState' =
                       SetEventSource(CloseSource(readyState, pending.send),
                                      NullSource)
                  /\ eventSource' = NullSource
             ELSE UNCHANGED <<readyState, eventSource>>
  /\ UNCHANGED <<wire, processed, forceStopDevice, panelFrame>>

\* handleStopTask up to its fetch.
PanelStop ==
  /\ pending.stop = NotPending
  /\ forceStopDevice' = TRUE
  /\ pending' = [pending EXCEPT !.stop = eventSource]
  /\ UNCHANGED <<eventSource, readyState, wire, processed, isLoading,
                 panelFrame>>

\* The DELETE answered (whatever its status), or the fetch threw.
PanelDeleteReturns(threw) ==
  /\ pending.stop # NotPending
  /\ pending' = [pending EXCEPT !.stop = NotPending]
  /\ IF threw
     THEN UNCHANGED <<isLoading, readyState, eventSource>>
     ELSE /\ isLoading' = FALSE
          /\ IF pending.stop # NullSource
             THEN /\ readyState' =
                       SetEventSource(CloseSource(readyState, pending.stop),
                                      NullSource)
                  /\ eventSource' = NullSource
             ELSE UNCHANGED <<readyState, eventSource>>
  /\ UNCHANGED <<wire, processed, forceStopDevice, panelFrame>>

\* The server writes an event to a stream whose request is not aborted.
StreamWrite(r, ev) ==
  /\ readyState[r] = "open"
  /\ Len(processed[r]) + Len(wire[r]) < MaxEvents
  /\ wire' = [wire EXCEPT ![r] = Append(@, ev)]
  /\ UNCHANGED <<eventSource, readyState, processed, isLoading,
                 forceStopDevice, pending, panelFrame>>

\* The next event of a stream arrives: a closed EventSource dispatches
\* nothing, an open one runs onmessage.
PanelOnMessage(r) ==
  /\ wire[r] # <<>>
  /\ wire' = [wire EXCEPT ![r] = Tail(@)]
  /\ IF readyState[r] # "open"
     THEN UNCHANGED <<eventSource, readyState, processed, isLoading,
                      forceStopDevice>>
     ELSE /\ processed' = [processed EXCEPT ![r] = Append(@, Head(wire[r]))]
          /\ IF ClosesStream(Head(wire[r]))
             THEN /\ readyState' =
                       SetEventSource(CloseSource(readyState, r),
                                      NullSource)
                  /\ eventSource' = NullSource
                  /\ isLoading' = FALSE
                  /\ forceStopDevice' = TRUE
             ELSE UNCHANGED <<eventSource, readyState, isLoading,
                              forceStopDevice>>
  /\ UNCHANGED <<pending, panelFrame>>

\* onerror of an EventSource.
PanelOnError(r) ==
  /\ readyState[r] = "open"
  /\ readyState' = SetEventSource(CloseSource(readyState, r), NullSource)
  /\ eventSource' = NullSource
  /\ isLoading' = FALSE
  /\ forceStopDevice' = TRUE
  /\ UNCHANGED <<wire, processed, pending, panelFrame>>

NextPanel ==
  \/ PanelSend
  \/ \E ok \in BOOLEAN : PanelPostReturns(ok)
  \/ PanelStop
  \/ \E threw \in BOOLEAN : PanelDeleteReturns(threw)
  \/ \E r \in Streams, ev \in AgentEvents : StreamWrite(r, ev)
  \/ \E r \in Streams : PanelOnMessage(r)
  \/ \E r \in Streams : PanelOnError(r)

\* One AgentPanel and the progress streams it opens.
SpecPanel == Init /\ [][NextPanel]_vars

\* ------------------------------------------------------------ DeviceStream
\* One DeviceStream component instance, from its mount on.  eventSourceRef
\* is the state of the EventSource the ref holds (an EventSource no ref
\* holds is closed); mediaRecorderRef likewise for the MediaRecorder.
streamFrame == <<coreVars, memVars, regVars, subVars, viewVars, panelVars>>

\* stopRecording: nothing without an active recorder, else it is stopped.
stopRecording(rec) == IF rec = "recording" THEN "inactive" ELSE rec

\* isRecording after stopRecording.
RecordingAfterStop(rec, flag) == IF rec = "recording" THEN FALSE ELSE flag

\* cleanupStreams: the EventSource is closed and forgotten, the recorder
\* the ref holds is stopped.
cleanupStreams ==
  /\ eventSourceRef' = "null"
  /\ isConnected' = IF eventSourceRef # "null" THEN FALSE ELSE isConnected
  /\ mediaRecorderRef' = stopRecording(mediaRecorderRef)
  /\ isRecording' = RecordingAfterStop(mediaRecorderRef, isRecording)
  /\ cleanedUp' = TRUE

\* The component mounts: the effect on [sessionId] resets the counter and
\* connects.
StreamMount ==
  /\ ~mounted /\ ~cleanedUp /\ eventSourceRef = "null"
  /\ mounted' = TRUE
  /\ retryCountRef' = 0
  /\ eventSourceRef' = "connecting"
  /\ UNCHANGED <<forceStop, isConnected, mediaRecorderRef, isRecording,
                 timers, strayRecorder, reconnects, cleanedUp,
                 openedAfterCleanup, streamFrame>>

\* onopen: the counter is reset and a new recorder is started (none once
\* the canvas is gone); the effect on [forceStop, isConnected] then cleans
\* up when a force stop is requested.
StreamOnOpen ==
  /\ eventSourceRef = "connecting"
  /\ retryCountRef' = 0
  /\ reconnects' = 0
  /\ strayRecorder' = (strayRecorder \/ (mounted /\ mediaRecorderRef = "recording"))
  /\ IF ~mounted
     THEN /\ eventSourceRef' = "open"
          /\ UNCHANGED <<isConnected, mediaRecorderRef, isRecording, cleanedUp>>
     ELSE IF forceStop
     THEN /\ eventSourceRef' = "null"
          /\ isConnected' = FALSE
          /\ mediaRecorderRef' = "inactive"
          /\ isRecording' = FALSE
          /\ cleanedUp' = TRUE
     ELSE /\ eventSourceRef' = "open"
          /\ isConnected' = TRUE
          /\ mediaRecorderRef' = "recording"
          /\ isRecording' = TRUE
          /\ UNCHANGED cleanedUp
  /\ UNCHANGED <<mounted, forceStop, timers, openedAfterCleanup, streamFrame>>

\* retryCountRef.current <= MAX_RETRIES
RetryAllowed(n) == n <= MAX_RETRIES

\* onerror: the EventSource is closed and the counter incremented; a
\* reconnect timer is set, or after too many errors recording is stopped.
StreamOnError ==
  /\ eventSourceRef \in {"connecting", "open"}
  /\ eventSourceRef' = "closed"
  /\ isConnected' = IF mounted THEN FALSE ELSE isConnected
  /\ retryCountRef' = retryCountRef + 1
  /\ IF RetryAllowed(retryCountRef + 1)
     THEN /\ timers' = timers + 1
          /\ UNCHANGED <<mediaRecorderRef, isRecording>>
     ELSE /\ mediaRecorderRef' = stopRecording(mediaRecorderRef)
          /\ isRecording' = RecordingAfterStop(mediaRecorderRef, isRecording)
          /\ UNCHANGED timers
  /\ UNCHANGED <<mounted, forceStop, strayRecorder, reconnects, cleanedUp,
                 openedAfterCleanup, streamFrame>>

\* A reconnect timer fires: it connects unless the ref holds an EventSource
\* that is not closed.
StreamTimer ==
  /\ timers > 0
  /\ timers' = timers - 1
  /\ IF eventSourceRef \in {"null", "closed"}
     THEN /\ eventSourceRef' = "connecting"
          /\ reconnects' = reconnects + 1
          /\ openedAfterCleanup' = (openedAfterCleanup \/ cleanedUp)
     ELSE UNCHANGED <<eventSourceRef, reconnects, openedAfterCleanup>>
  /\ UNCHANGED <<mounted, forceStop, retryCountRef, isConnected,
                 mediaRecorderRef, isRecording, strayRecorder, cleanedUp,
                 streamFrame>>

\* The parent changes the forceStop prop: the effect on
\* [forceStop, isConnected] runs cleanupStreams when the stream is connected.
StreamSetForceStop(b) ==
  /\ mounted
  /\ forceStop # b
  /\ forceStop' = b
  /\ IF b /\ isConnected
     THEN cleanupStreams
     ELSE UNCHANGED <<eventSourceRef, isConnected, mediaRecorderRef,
                      isRecording, cleanedUp>>
  /\ UNCHANGED <<mounted, retryCountRef, timers, strayRecorder, reconnects,
                 openedAfterCleanup, streamFrame>>

\* The component unmounts: the cleanup of the effect on [sessionId].
StreamUnmount ==
  /\ mounted
  /\ mounted' = FALSE
  /\ cleanupStreams
  /\ UNCHANGED <<forceStop, retryCountRef, timers, strayRecorder, reconnects,
                 openedAfterCleanup, streamFrame>>

NextStream ==
  \/ StreamMount
  \/ StreamOnOpen
  \/ StreamOnError
  \/ StreamTimer
  \/ \E b \in BOOLEAN : StreamSetForceStop(b)
  \/ StreamUnmount

\* One DeviceStream component and its connection to /api/play.
SpecStream == Init /\ [][NextStream]_vars

\* ================================================================ properties
TurnPcs == {"getState", "invoke", "loopTop", "inAction", "sleep"}

\* Every turn of Spec ends in an outcome that SpecExec lets ActReturn take.
TurnOutcomeSound ==
  [][ (pc \in TurnPcs /\ pc' = "navReturned") =>
        (navOut' \in TurnOutcomes /\ TurnOutcomeAllowed(navOut', paused, stopped))
    ]_vars

ErrorCount(rs) == Cardinality({i \in 1..Len(rs) : rs[i] = ErrorResult})

\* C1: for a registered action and arguments that fail its schema, Action.call
\* raises InvalidInputError without running the handler: no device-adapter
\* method is called and neither ACT_START nor ACT_OK is emitted for that
\* invocation.
C1_InvalidInputStopsBeforeHandler ==
  (getAction(inv.name) /\ ~inv.valid) =>
    /\ inv.err = "InvalidInputError"
    /\ inv.device = "none"
    /\ inv.target = NoElement
    /\ inv.emitted \cap {"ACT_START", "ACT_OK"} = {}

C1_Witness ==
  /\ pc = "loopTop"
  /\ inv.name = "input_text" /\ ~inv.valid
  /\ inv.err = "InvalidInputError"
  /\ ElementAt(cachedState, 0) # NoElement

\* C2 (the claim as stated): an index issued against the superseded snapshot
\* is rejected by clickElement and inputText with an index-not-found error
\* and addresses no element of the newer snapshot.
C2_StaleIndexRejected ==
  (inv.stale /\ inv.valid) =>
    (inv.err = "IndexNotFound" /\ inv.target = NoElement)

\* C3: click_element and input_text with an index that has no element in the
\* current snapshot (none was ever taken included) fail with an
\* index-not-found error before any driver gesture; inside a turn the failure
\* appends exactly one error result and leaves the earlier results alone,
\* unless it is the error that exceeds the turn's error budget: then the
\* action loop throws and no result is recorded for it.
C3_IndexNotFound ==
  /\ [](( /\ inv.name \in {"click_element", "input_text"} /\ inv.valid
          /\ ~(cachedState.taken /\ inv.index >= 0
               /\ inv.index < Len(cachedState.interactiveElements)))
        => ( /\ inv.err = "IndexNotFound"
             /\ inv.device = "none"
             /\ inv.target = NoElement
             /\ "ACT_OK" \notin inv.emitted ))
  /\ [][ (inv' # inv /\ inv'.err = "IndexNotFound") =>
           /\ UNCHANGED <<cachedState, actionResults>>
           /\ IF pc # "loopTop" THEN UNCHANGED results
              ELSE IF errCount < MaxErrors
              THEN results' = Append(results, ErrorResult) /\ pc' = "loopTop"
              ELSE /\ UNCHANGED results
                   /\ pc' = "navReturned" /\ navOut'.kind = "error"
                   /\ caught' = Err(MsgTooMany) ]_vars

C3_Witness ==
  /\ pc = "loopTop"
  /\ inv.name = "click_element" /\ inv.valid /\ inv.index = 1
  /\ inv.err = "IndexNotFound"
  /\ results = <<OkResult, ErrorResult>>

\* C3 (the claim as stated): inside a turn every index-not-found failure
\* contributes exactly one error result at its position.
C3_AlwaysOneErrorResult ==
  (inv.err = "IndexNotFound" /\ inv.seq >= 1) =>
    (Len(results) = inv.seq /\ results[inv.seq] = ErrorResult)

\* C4: only getState writes the cached snapshot: the device operations of the
\* actions and the preview's screenshot poll leave it as it is, so a click
\* at the index of the click just before targets the same element.
C4_OnlyGetStateWritesCache ==
  /\ [][cachedState' # cachedState =>
          \E s \in Screens : GetStateOk(s) \/ DirectGetState(s)]_vars
  /\ []((inv.name = "click_element" /\ inv.valid /\ inv.prevTarget # NoElement)
        => (inv.device = "clickElement" /\ inv.target = inv.prevTarget))

C4_Witness ==
  /\ inv.seq = 2 /\ inv.device = "clickElement" /\ inv.err = "none"
  /\ inv.prevTarget = "b" /\ inv.target = "b"
  /\ results = <<OkResult, OkResult>>

C6_DoneAnywhereEndsTask ==
  (pc = "navReturned" /\ navOut.kind = "ok" /\ DoneResult \in Range(results))
    => navOut.done

\* C7: once stop is requested the Navigator dispatches no further action; a
\* model call that resolves after the request ends the turn cancelled, with
\* STEP_CANCEL and without STEP_OK, none of its actions executed.
C7_StopEndsDispatch ==
  /\ [][stopped => ~(inv'.seq > inv.seq)]_vars
  /\ [][ (pc = "invoke" /\ stopped /\ pc' # "invoke") =>
           /\ pc' = "navReturned"
           /\ inv' = NoInv /\ results' = <<>>
           /\ UNCHANGED <<actionResults, cachedState>>
           /\ navOut'.kind \in {"cancelled", "error", "throw"}
           /\ caught' = NoErr =>
                /\ navOut'.kind = "cancelled"
                /\ Last(turnEvents') = "STEP_CANCEL"
                /\ "STEP_OK" \notin Range(turnEvents') ]_vars
  /\ [][ (stopped /\ pc \in TurnPcs /\ pc' = "navReturned") =>
           /\ navOut'.kind \in {"cancelled", "error", "throw"}
           /\ "STEP_OK" \notin Range(turnEvents') ]_vars

C7_Witness ==
  /\ pc = "navReturned" /\ stopped /\ ~paused
  /\ navOut.kind = "cancelled"
  /\ turnEvents = <<"STEP_START", "STEP_LOG", "STEP_CANCEL">>
  /\ inv = NoInv
  /\ budget = 0

\* C8 (the claim as stated): a pause seen during a turn is not reported as a
\* cancellation and drops none of the actions not yet executed.
C8_PauseKeepsTheTurn ==
  (pc = "navReturned" /\ ~stopped) =>
    /\ navOut.kind # "cancelled"
    /\ "STEP_CANCEL" \notin Range(turnEvents)
    /\ navOut.kind = "ok" => Len(results) = nActions

TerminalCount(evs) ==
  Cardinality({i \in 1..Len(evs) : IsTerminalEvent(evs[i])})

FirstPlanReturns(o) ==
  pc = "planCall" /\ phases.plan = 1 /\ ~stopped /\ PlanReturn(o)

ValidateFails == pc = "validateCall" /\ ~stopped /\ ValidateReturn("fail")

C13_LoopTerminates ==
  /\ [](/\ step <= MaxSteps
        /\ phases.plan <= MaxSteps
        /\ phases.act <= phases.plan
        /\ phases.validate <= phases.act
        /\ step <= phases.validate
        /\ pc \in PhaseCalls \cup {"actTop", "validateTop"} => step < MaxSteps)
  /\ [][pc = "planTop" /\ step = MaxSteps /\ pc' # pc =>
          \/ ~stopped /\ pc' = "failed" /\ Last(sysEvents') = "TASK_FAIL"
          \/ stopped /\ pc' = "cancelled"]_vars
  /\ (<>[](~paused) => <>(pc \in Ended))

\* A run stopped by the step limit alone.
C13_Witness ==
  /\ pc = "failed"
  /\ step = MaxSteps
  /\ phases.plan = MaxSteps
  /\ failures < MaxFailures
  /\ stepFailures < MaxFailures
  /\ Last(sysEvents) = "TASK_FAIL"

\* ------------------------------------------------------------------- C14
\* A call of addStateMessageToMemory that finds a state message staged.
SecondCallWhileStaged ==
  pc = "invoke" /\ stateMessageAdded /\ \E s \in Screens : MemAddStateAgain(s)

\* C14: a call of addStateMessageToMemory made while a state message is
\* staged fetches no snapshot (no getState call: the cache and the count of
\* fetches stay), adds no message and leaves actionResults and the flag
\* alone; a staged state message stands for exactly one snapshot fetch.
C14_SecondCallIsNoOp ==
  /\ [](stateMessageAdded => snapshots = 1 /\ Count(history, "state") = 1)
  /\ [][SecondCallWhileStaged =>
          UNCHANGED <<history, actionResults, cachedState, prevLen, snapshots,
                      stateMessageAdded, inputMessages>>]_vars

\* The second call has been made, with results of the turn before still in
\* actionResults.
C14_Witness ==
  /\ pc = "invoke"
  /\ again
  /\ stateMessageAdded
  /\ snapshots = 1
  /\ actionResults # <<>>

\* ------------------------------------------------------------------- C15
\* C15: the history never holds two state messages and holds one exactly
\* while stateMessageAdded is set; outside a turn (however the turn ended)
\* and while the turn's actions run, none is staged; the step that records
\* the model output leaves a history without state message whose most recent
\* entry is that output.
C15_NoStateMessageLeftStaged ==
  /\ [](/\ Count(history, "state") <= 1
        /\ stateMessageAdded = (Count(history, "state") = 1)
        /\ pc \in {"idle", "navReturned", "inAction"} =>
             ~stateMessageAdded /\ Count(history, "state") = 0)
  /\ [][pc = "invoke" /\ pc' = "inAction" =>
          /\ Count(history', "state") = 0
          /\ Last(history') = "output"
          /\ ~stateMessageAdded']_vars

\* execute has thrown an authentication error out of a turn whose model call
\* had a state message staged.
C15_Witness ==
  /\ pc = "navReturned"
  /\ navOut.kind = "throw"
  /\ Count(inputMessages, "state") = 1
  /\ Count(history, "state") = 0
  /\ ~stateMessageAdded

\* ------------------------------------------------------------------- C16
\* C16: a state message that is resident is the most recent entry of the
\* history, so the result and error messages of the turn before and every
\* model output come before it; the messages a model call gets hold exactly
\* one state message, at their end, and are the history as long as the call
\* is pending.
C16_StagedStateIsMostRecent ==
  /\ Count(history, "state") > 0 => Last(history) = "state"
  /\ Count(inputMessages, "state") <= 1
  /\ pc = "invoke" =>
       /\ inputMessages = history
       /\ Count(inputMessages, "state") = 1
       /\ Last(inputMessages) = "state"

\* A model call is pending on a history with an earlier model output and a
\* result or error message of the turn before right below the state message.
C16_Witness ==
  /\ pc = "invoke"
  /\ Len(history) >= 4
  /\ Last(history) = "state"
  /\ history[Len(history) - 1] \in {"result", "error"}
  /\ Count(history, "output") >= 1

\* ------------------------------------------------------------------- C17
\* The Executors of session s whose execute is pending.
Running(s) ==
  {e \in ReqIds : executors[e].session = s /\ executors[e].status = "running"}

\* C17: no session ever has two Executors running at a time, whatever the
\* interleaving of the create-session requests.
C17_OneExecutorPerSession ==
  \A s \in Sessions : Cardinality(Running(s)) <= 1

EventsAfter(a, n) == [i \in 1..(n - a) |-> a + i]

\* C19: a connection that is open has received exactly the events emitted
\* since its listener was attached, each once and in emission order.
C19_ExactlyTheEventsAfterSubscribing ==
  \A c \in ConnIds :
    conns[c].state = "open" =>
      conns[c].received = EventsAfter(conns[c].attachedAt, nEmitted)

\* ------------------------------------------------------------------- C20
\* C20: on either platform every element processPageSource emits has bounds,
\* of positive width and height.
C20_EmittedElementsHaveBounds ==
  viewOut.state = "ok" =>
    \A i \in 1..Len(viewOut.interactiveElements) :
      LET b == viewOut.interactiveElements[i].bounds
      IN b.defined /\ Positive(b.width) /\ Positive(b.height)

\* ------------------------------------------------------------------- C21
\* The nodes of a list of node trees, each before its descendants.
Nodes(ns) ==
  LET RECURSIVE Flat(_)
      Flat(ms) ==
        IF ms = <<>> THEN <<>>
        ELSE <<ms[1]>> \o Flat(ms[1].children) \o Flat(Tail(ms))
  IN Flat(ns)

\* The tree processPageSource starts from.
RootNode == elementToNode(platform, pageSource[1])

\* C21: on either platform optimizing an optimized tree gives the same tree
\* again, and the list of interactive elements extracted from it is the
\* list extracted the first time.
C21_OptimizeIsIdempotent ==
  viewOut.state = "ok" =>
    LET twice == optimizeNodes(platform, viewOut.optimizedRoot)
    IN /\ twice = viewOut.optimizedRoot
       /\ extractInteractiveElements(platform, twice)
            = viewOut.interactiveElements

\* An optimization that dropped a child and replaced the root by another
\* has returned.
C21_Witness ==
  /\ viewOut.state = "ok"
  /\ Len(RootNode.children) >= 2
  /\ viewOut.optimizedRoot[1].id # 0
  /\ viewOut.interactiveElements # <<>>

\* ------------------------------------------------------------------- C22
\* What is left of the children of the root after optimizing them.
SurvivingChildren == optimizeNodes(platform, RootNode.children)

\* C22: no node of an optimized tree is without meaningful attributes and
\* has fewer than two children; a root without meaningful attributes that
\* is not skipped is replaced by its only surviving child, and the tree is
\* empty when no child survives.
C22_NoBareNodeWithFewerThanTwoChildren ==
  /\ viewOut.state = "ok" =>
       LET all == Nodes(viewOut.optimizedRoot)
       IN \A i \in 1..Len(all) :
            \/ HasMeaningful(platform, all[i].attributes)
            \/ Len(all[i].children) >= 2
  /\ /\ viewOut.state \in {"ok", "threw"}
     /\ pageSource # <<>>
     /\ ~Skipped(platform, RootNode)
     /\ ~HasMeaningful(platform, RootNode.attributes)
     => /\ Len(SurvivingChildren) = 1
             => viewOut.optimizedRoot = SurvivingChildren
        /\ Len(SurvivingChildren) = 0 => viewOut.error = "empty tree"

\* A root without meaningful attributes was replaced by the one child of
\* its two that survived.
C22_Witness ==
  /\ viewOut.state = "ok"
  /\ ~HasMeaningful(platform, RootNode.attributes)
  /\ Len(RootNode.children) = 2
  /\ Len(SurvivingChildren) = 1
  /\ viewOut.optimizedRoot = SurvivingChildren

\* ------------------------------------------------------------------- C23
\* The root element is a status bar or a navigation bar whose geometry does
\* not make optimizeNode drop it, and it has both names or neither.
ChromeRoot ==
  /\ viewOut.state \in {"ok", "threw"}
  /\ pageSource # <<>>
  /\ pageSource[1].el.kind \in {"statusbar", "navbar"}
  /\ pageSource[1].el.label = pageSource[1].el.desc
  /\ LET b == RootNode.bounds
     IN ~(b.defined /\ (NotPositive(b.width) \/ NotPositive(b.height)))

\* C23: on either platform a status bar or navigation bar is discarded
\* exactly when it has no name: one that has a name is kept in the
\* optimized tree.
C23_ChromeDiscardedIffUnnamed ==
  ChromeRoot =>
    (pageSource[1].el.label
       <=> (viewOut.state = "ok" /\ viewOut.optimizedRoot[1].id = 0))

\* ------------------------------------------------------------------- C24
\* C24: the interactive-element list is exactly the visible nodes of the
\* optimized tree that are flagged interactive or have a non-empty text or
\* accessible name (Android: text or content-desc; iOS: name or label), in
\* the order of the tree.
C24_ListIsTheVisibleNamedOrInteractiveNodes ==
  viewOut.state = "ok" =>
    LET Qualifies(n) ==
          /\ n.isVisible
          /\ n.isInteractive \/ n.attributes.label \/ n.attributes.desc
    IN viewOut.interactiveElements
         = SelectSeq(Nodes(viewOut.optimizedRoot), Qualifies)

\* ------------------------------------------------------------------- C25
\* The iOS document is an application root whose children are visible
\* controls of an interactive type, and nothing else.
RootOfControls ==
  /\ platform = "ios"
  /\ viewOut.state \in {"ok", "threw"}
  /\ pageSource # <<>>
  /\ pageSource[1].kids # <<>>
  /\ \A i \in 1..Len(pageSource[1].kids) :
       /\ pageSource[1].kids[i].kids = <<>>
       /\ pageSource[1].kids[i].el.kind = "control"
       /\ RootNode.children[i].isVisible

\* C25: for an iOS application root with N visible controls of interactive
\* types processPageSource returns exactly N elements, one for each
\* control, each flagged interactive.
C25_OneElementPerControl ==
  RootOfControls =>
    /\ viewOut.state = "ok"
    /\ Len(viewOut.interactiveElements) = Len(pageSource[1].kids)
    /\ \A i \in 1..Len(viewOut.interactiveElements) :
         /\ viewOut.interactiveElements[i].isInteractive
         /\ viewOut.interactiveElements[i].id = i

\* ------------------------------------------------------------------- C26
\* Optimization ran and left no root node.
OptimizationLeftNothing ==
  /\ pageSource # <<>>
  /\ optimizeNodes(platform, <<RootNode>>) = <<>>

\* C26 as stated: processPageSource fails exactly when optimization leaves
\* no root node.
C26_FailsExactlyWhenTreeIsEmpty ==
  viewOut.state \in {"ok", "threw"} =>
    (viewOut.state = "threw" <=> OptimizationLeftNothing)

\* C26, amended: for a page source that has a root element processPageSource
\* fails exactly when optimization leaves no root node, and returns the
\* list, empty or not, when the optimized tree is not empty; a page source
\* without a root element fails before any optimization.
C26_FailsWhenTreeIsEmptyOrThereIsNoRoot ==
  viewOut.state \in {"ok", "threw"} =>
    /\ pageSource # <<>> =>
         /\ viewOut.state = "threw" <=> OptimizationLeftNothing
         /\ viewOut.state = "threw" => viewOut.error = "empty tree"
         /\ viewOut.state = "ok" =>
              /\ viewOut.optimizedRoot # <<>>
              /\ viewOut.interactiveElements
                   = extractInteractiveElements(platform,
                                                viewOut.optimizedRoot)
    /\ pageSource = <<>> =>
         viewOut.state = "threw" /\ viewOut.error = "no root"

\* processPageSource has returned an empty list for a tree that is not
\* empty.
C26_Witness ==
  /\ viewOut.state = "ok"
  /\ viewOut.optimizedRoot # <<>>
  /\ viewOut.interactiveElements = <<>>

\* ------------------------------------------------------------------- C30
\* The ids of the nodes of a list of node trees.
Ids(ns) == {Nodes(ns)[i].id : i \in 1..Len(Nodes(ns))}

\* The index formatElementsList gives the listed node of this id.
ListIndex(id) ==
  LET listed == formatElementsList(viewOut.interactiveElements)
  IN (CHOOSE i \in 1..Len(listed) : listed[i].element.id = id) - 1

ListedIds ==
  {viewOut.interactiveElements[i].id :
     i \in 1..Len(viewOut.interactiveElements)}

\* C30: the indices are 0 to the length of the list less one, every listed
\* node has a smaller index than each of its listed descendants in the
\* optimized tree, and listed children of one node have their indices in
\* the order of the children.
C30_IndicesFollowPreOrder ==
  viewOut.state = "ok" =>
    LET listed == formatElementsList(viewOut.interactiveElements)
        all == Nodes(viewOut.optimizedRoot)
    IN /\ \A i \in 1..Len(listed) : listed[i].index = i - 1
       /\ \A i, j \in 1..Len(listed) :
            listed[i].element.id = listed[j].element.id => i = j
       /\ \A i \in 1..Len(all) :
            /\ all[i].id \in ListedIds =>
                 \A d \in Ids(all[i].children) \cap ListedIds :
                   ListIndex(all[i].id) < ListIndex(d)
            /\ \A a, b \in 1..Len(all[i].children) :
                 /\ a < b
                 /\ all[i].children[a].id \in ListedIds
                 /\ all[i].children[b].id \in ListedIds
                 => ListIndex(all[i].children[a].id)
                      < ListIndex(all[i].children[b].id)

\* A listed node with two listed children, one of which has a listed child
\* of its own.
C30_Witness ==
  /\ viewOut.state = "ok"
  /\ Len(viewOut.interactiveElements) = 4
  /\ \E i \in 1..4 :
       LET n == viewOut.interactiveElements[i]
       IN /\ Len(n.children) = 2
          /\ n.children[1].id \in ListedIds
          /\ n.children[2].id \in ListedIds
          /\ n.children[1].children # <<>>

\* ------------------------------------------------------------------- C27
\* The number of error results at the end of a result list.
TrailingErrors(rs) ==
  LET RECURSIVE Run(_)
      Run(n) == IF n = 0 \/ rs[n] # ErrorResult THEN 0 ELSE 1 + Run(n - 1)
  IN Run(Len(rs))

\* C27: only consecutive action failures count toward aborting a turn: when
\* the action loop gives up, the failure that made it give up follows
\* MaxErrors failures in a row, with no successful action between them.
C27_AbortedOnlyAfterFailuresInARow ==
  caught = Err(MsgTooMany) => TrailingErrors(results) >= MaxErrors

\* ------------------------------------------------------------------- C28
\* C28: when the action loop gives up for too many errors, execute does not
\* throw: it emits STEP_FAIL as the last event of the turn (and no STEP_OK),
\* returns an output with the error and no done result, and the context is
\* ready for the next turn.
C28_TooManyErrorsFailsTheStepOnly ==
  caught = Err(MsgTooMany) =>
    /\ pc = "navReturned"
    /\ navOut.kind = "error"
    /\ ~navOut.done
    /\ Last(turnEvents) = "STEP_FAIL"
    /\ \A i \in 1..Len(turnEvents) :
         /\ turnEvents[i] # "STEP_OK"
         /\ turnEvents[i] = "STEP_FAIL" => i = Len(turnEvents)
    /\ ~stateMessageAdded

\* A turn was given up after its fourth failing action and handed back.
C28_Witness ==
  /\ caught = Err(MsgTooMany)
  /\ navOut = [kind |-> "error", done |-> FALSE]
  /\ turnEvents = <<"STEP_START", "STEP_LOG", "STEP_FAIL">>
  /\ inv.seq = MaxErrors + 1

\* ------------------------------------------------------------------- C29
\* An action of the turn is dispatched at this step.
Dispatches == inv'.seq > 0 /\ inv'.seq # inv.seq

\* C29: the actions of a model output are dispatched in list order, one at
\* a time: an action is dispatched only when every action before it has
\* left its result, and each result is appended at the position of the
\* action that was dispatched last, an error result for a failed action.
C29_DispatchedInOrderOneAtATime ==
  [][ /\ Dispatches =>
           /\ pc = "loopTop"
           /\ inv'.seq = Len(results) + 1
           /\ inv'.seq = inv.seq + 1
      /\ pc \in {"inAction", "sleep"} => ~Dispatches
      /\ (results' # results /\ results' # <<>>) =>
           /\ results' = Append(results, Last(results'))
           /\ Len(results') = inv'.seq
           /\ Last(results').error <=> inv'.err # "none"
    ]_vars

\* The third action of a turn is in flight after a failed first and a
\* successful second one.
C29_Witness ==
  /\ pc = "inAction"
  /\ inv.seq = 3
  /\ results = <<ErrorResult, OkResult>>

\* ------------------------------------------------------------------- C31
ClosingStepStates == {"STEP_OK", "STEP_FAIL", "STEP_CANCEL"}

\* C31: a turn that has left execute, on whatever path, has emitted
\* STEP_START as its first event and exactly one closing step event
\* (STEP_OK, STEP_FAIL or STEP_CANCEL), as its last.
C31_TurnOpensAndClosesOnce ==
  pc = "navReturned" =>
    /\ turnEvents # <<>>
    /\ turnEvents[1] = "STEP_START"
    /\ \A i \in 2..Len(turnEvents) : turnEvents[i] # "STEP_START"
    /\ Last(turnEvents) \in ClosingStepStates
    /\ \A i \in 1..Len(turnEvents) :
         turnEvents[i] \in ClosingStepStates => i = Len(turnEvents)

\* ------------------------------------------------------------------- C32
ReceivedTerminal(r) ==
  \E i \in 1..Len(processed[r]) :
    /\ processed[r][i].actor = "SYSTEM"
    /\ processed[r][i].state \in {"TASK_OK", "TASK_FAIL", "TASK_CANCEL"}

Deliveries(evs, ev) == Cardinality({i \in 1..Len(evs) : evs[i] = ev})

\* C33: every event the executor emitted while a stream was connected has
\* been delivered to that stream exactly once, however many times the
\* get-events endpoint was called for the session.
C33_DeliveredOncePerStream ==
  \A c \in ConnIds :
    conns[c].state = "open" =>
      \A ev \in (conns[c].attachedAt + 1)..nEmitted :
        Deliveries(conns[c].received, ev) = 1

\* ------------------------------------------------------------------- C34
\* The executors of session s other than e that have not settled were all
\* told to cancel.
OthersCancelled(s, e) ==
  \A o \in ReqIds \ {e} :
    (executors[o].session = s /\ executors[o].status = "running")
      => executors[o].stopped

\* C34: a registered executor that keeps running and has not been told to
\* cancel stays registered under its session id, also when an earlier
\* executor of that session id, cancelled before, settles: no step in which
\* it neither settles nor is cancelled empties the entry of its session id.
C34_RunningExecutorStaysRegistered ==
  [][\A s \in Sessions :
       LET e == activeExecutors[s]
       IN (/\ e # NoExecutor
           /\ OthersCancelled(s, e)
           /\ executors[e].status = "running"
           /\ executors'[e].status = "running"
           /\ ~executors'[e].stopped)
          => activeExecutors'[s] # NoExecutor]_vars

\* ------------------------------------------------------------------- C38
\* C38: a getState that fails, at whichever of its steps, leaves the cached
\* snapshot as it was, so every index addresses the element it addressed
\* before.
C38_FailedGetStateKeepsSnapshot ==
  [][(pc = "getState" /\ pc' = "navReturned" /\ navOut'.kind # "cancelled")
       => /\ cachedState' = cachedState
          /\ \A i \in 0..MaxElems :
               ElementAt(cachedState', i) = ElementAt(cachedState, i)]_vars

\* A turn whose getState failed in the view processor while a snapshot with
\* an element was cached.
C38_Witness ==
  /\ pc = "navReturned"
  /\ caught = Err(MsgNoRoot)
  /\ cachedState.taken
  /\ Len(cachedState.interactiveElements) > 0

\* ------------------------------------------------------------------- C36
\* C36: over any sequence of turns, no action result has gone to the message
\* history more than once, and a result that has gone there has been
\* replaced by an empty result.
C36_ResultWrittenAtMostOnce ==
  \A i \in 1..Len(written) :
    /\ written[i] <= 1
    /\ written[i] = 1 => actionResults[i] = EmptyResult

\* The results of a turn, one of them an error, have just gone to the
\* history at the start of the next turn.
C36_Witness ==
  /\ pc = "getState"
  /\ Len(written) = MaxResults
  /\ \A i \in 1..Len(written) : written[i] = 1 /\ actionResults[i] = EmptyResult
  /\ Count(history, "error") > 0

\* ------------------------------------------------------------------- C35
\* C35: no device action is dispatched after a done action of the same
\* turn: while a device call of the action loop is in flight, none of the
\* results collected so far in the turn is a done result.
C35_NoDeviceActionAfterDone ==
  (pc = "inAction" /\ inv.device # "none") =>
    \A i \in 1..Len(results) : ~results[i].isDone

\* ------------------------------------------------------------------- C37
\* A step of the action loop that takes up the next item of the list.
DispatchStep ==
  /\ pc = "loopTop"
  /\ k' = k + 1 \/ pc' = "inAction" \/ errCount' = errCount + 1

\* C37: an item whose name is not registered, or that has no key, never
\* reaches the device adapter: it fails with ACT_FAIL, counts as an error of
\* the turn and yields one error result, and the loop goes on to the
\* remaining items.
C37_UnregisteredActionFails ==
  [][(DispatchStep /\ inv'.name \notin ActionNames) =>
       /\ inv'.device = "none"
       /\ cachedState' = cachedState
       /\ inv'.emitted = {"ACT_FAIL"}
       /\ errCount' = errCount + 1
       /\ results' = Append(results, ErrorResult)
       /\ k' = k + 1
       /\ pc' = "loopTop"]_vars

\* ------------------------------------------------------------------- C39
\* C39: the device stream reconnects at most MAX_RETRIES times in a row
\* since its last successful open, and once more errors than that have
\* followed one another no reconnect is scheduled any more and nothing is
\* recording.
C39_BoundedReconnects ==
  /\ reconnects <= MAX_RETRIES
  /\ retryCountRef > MAX_RETRIES =>
       /\ timers = 0
       /\ eventSourceRef \in {"closed", "null"}
       /\ ~isRecording
       /\ mediaRecorderRef # "recording"
       /\ ~strayRecorder

\* ------------------------------------------------------------------- C40
\* C40: after cleanupStreams has run, for a force stop or on unmount, no
\* stream connection is opened any more.
C40_NoConnectionAfterCleanup == ~openedAfterCleanup

====
